---- MODULE Spec2Model ----
(***************************************************************************)
(* OCPP 1.6 charge-point simulator: the charging-profile store and         *)
(* scheduler (ChargingProfilesManager, charging_profiles.py, which is the  *)
(* one EVChargerSimulator wires in) and its historical sibling             *)
(* (ChargingProfileHandler, charging_profile_handler.py, wired in by       *)
(* simulator_integration.py); and the session of EVChargerSimulator        *)
(* (ev_charger_simulator.py): connect cycles, the receive loop and the     *)
(* correlation of the simulator's own calls with their responses.          *)
(*                                                                         *)
(* Encoding.  Python None is the integer None (-1); a timestamp string     *)
(* that datetime.fromisoformat cannot parse is BadTime (-2); every other   *)
(* timestamp is a UTC instant ("...Z") counted in whole seconds.  Floats   *)
(* are integers: the limits drawn below are multiples of 230 W, so that    *)
(* the division by 230.0 is exact.                                         *)
(***************************************************************************)
EXTENDS Integers, Sequences, FiniteSets, TLC

VARIABLES
    charging_profiles,      \* ChargingProfilesManager.charging_profiles: connector -> list
    current_limits,         \* ChargingProfilesManager.current_limits: connector -> {power, current}
    limit_source,           \* history: the profile object whose period wrote current_limits[c]
    connector_transactions, \* EVChargerSimulator.connector_transactions: 1..N -> transaction id
    connector_status,       \* EVChargerSimulator.connector_status: 1..N -> status
    meter_values,           \* MeterValuesHandler.meter_values: connector -> measurands
    allowed_units,          \* configuration key ChargingScheduleAllowedChargingRateUnit
    now,                    \* datetime.utcnow(), in seconds
    next_object,            \* number of ChargingProfile objects constructed and stored so far
    submitted,              \* history: (stackLevel, purpose) pairs submitted per connector
    last,                   \* the last request served and the status it returned
    active_profiles,        \* ChargingProfileHandler.active_profiles: connector -> list
    handler_limits,         \* ChargingProfileHandler.current_limits: connector -> limits
    handler_last,           \* the last request ChargingProfileHandler served
    period_profile,         \* period evaluation on its own: the profile under evaluation
    period_elapsed,         \* ... the elapsed seconds it is evaluated at
    period_limit,           \* ... whether evaluated, and the limit found (None: no period)
    message_id,             \* EVChargerSimulator.message_id
    pending_requests,       \* EVChargerSimulator.pending_requests: id -> the call whose future it is
    calls,                  \* the send_call invocations so far, in order: id, future, outcome
    is_connected,           \* EVChargerSimulator.is_connected
    websocket,              \* EVChargerSimulator.websocket and the state of that connection
    boot_notification_accepted, \* EVChargerSimulator.boot_notification_accepted
    reconnect_attempts,     \* EVChargerSimulator.reconnect_attempts
    connect_pc,             \* where the innermost connect() stands
    sleep_left,             \* seconds left of the sleep of handle_connection_failure
    boot_tasks,             \* send_boot_notification tasks about to call send_call
    loops,                  \* heartbeat_loop / grid telemetry tasks created so far
    attempt,                \* history: the strategy last tried in the current connect cycle
    failed_cycles,          \* history: connect cycles failed in a row
    frame,                  \* history: the last inbound frame that was not a response to a call
    responses,              \* the envelopes sent while that frame was handled
    sample_interval,        \* configuration key MeterValueSampleInterval
    meter_loops,            \* the send_meter_values_loop task of each connector
    grid_loop,              \* the send_grid_meter_values_loop task
    samples,                \* the last Power.Active.Import sample sent per connector
    heartbeat_loops,        \* the heartbeat_loop tasks created so far, in order
    earlier_loops,          \* a send_meter_values_loop task of an earlier transaction, per connector
    limit_view,             \* the dictionary get_current_limit returned last, in its caller's hands
    inbox,                  \* frames of the central system that message_handler has not read yet
    handler,                \* the handler of an inbound request that message_handler awaits
    starts                  \* the start_transaction invocations made from outside the receive loop

vars == <<charging_profiles, current_limits, limit_source, connector_transactions,
          connector_status, meter_values, allowed_units, now, next_object, submitted,
          last, active_profiles, handler_limits, handler_last,
          period_profile, period_elapsed, period_limit,
          message_id, pending_requests, calls, is_connected, websocket,
          boot_notification_accepted, reconnect_attempts, connect_pc, sleep_left,
          boot_tasks, loops, attempt, failed_cycles,
          frame, responses, sample_interval, meter_loops, grid_loop, samples,
          heartbeat_loops, earlier_loops, limit_view, inbox, handler, starts>>

managerVars == <<charging_profiles, current_limits, limit_source, next_object,
                 submitted, last>>
handlerVars == <<active_profiles, handler_limits, handler_last>>
periodVars == <<period_profile, period_elapsed, period_limit>>
simulatorVars == <<connector_transactions, connector_status, meter_values>>
correlatorVars == <<message_id, pending_requests, calls>>
connectionVars == <<is_connected, websocket, reconnect_attempts, connect_pc, sleep_left,
                    attempt, failed_cycles>>
bootVars == <<boot_notification_accepted, boot_tasks, loops>>
sessionVars == <<correlatorVars, connectionVars, bootVars>>
dispatchVars == <<frame, responses>>
telemetryVars == <<sample_interval, meter_loops, grid_loop, samples, heartbeat_loops,
                   earlier_loops>>
taskVars == <<limit_view, inbox, handler, starts>>
profileVars == <<managerVars, handlerVars, periodVars, simulatorVars, allowed_units, now>>

---------------------------------------------------------------------------
(* Bounds of the model *)

NumberOfConnectors == 2     \* config 'number_of_connectors'
MaxTime == 2                \* the clock runs over 0..MaxTime
MaxSets == 2                \* SetChargingProfile requests served in one behaviour
MaxElapsedDays == 1         \* period evaluation: whole days added to the sample offsets
MaxCalls == 2               \* send_call invocations in one behaviour
MaxConnections == 2         \* connections established in one behaviour

(* Program constants *)

None == -1
BadTime == -2
ChargeProfileMaxStackLevel == 10
ChargingScheduleMaxPeriods == 6
max_power == 11000
max_current == 48
handler_max_power == 22000
Voltage == 230
DefaultPhases == 3
SecondsPerDay == 86400
SecondsPerWeek == 604800
DefaultMeterPower == 7400
DefaultMeterCurrent == 32
max_reconnect_attempts == 5
ReconnectDelay == 5
CallTimeout == 30
DefaultSampleInterval == 60
heartbeat_interval == 60

Connectors == 0 .. NumberOfConnectors
PhysicalConnectors == 1 .. NumberOfConnectors

Min(a, b) == IF a <= b THEN a ELSE b
Range(s) == {s[i] : i \in DOMAIN s}

---------------------------------------------------------------------------
(* Request payloads *)

Period(start, limit, phases) ==
    [startPeriod |-> start, limit |-> limit, numberPhases |-> phases]

\* csChargingProfiles of a SetChargingProfile.req
Profile(id, tx, stack, purpose, kind, recurrency, from, to, start, unit, periods) ==
    [chargingProfileId |-> id, transactionId |-> tx, stackLevel |-> stack,
     chargingProfilePurpose |-> purpose, chargingProfileKind |-> kind,
     recurrencyKind |-> recurrency, validFrom |-> from, validTo |-> to,
     duration |-> None, startSchedule |-> start, chargingRateUnit |-> unit,
     minChargingRate |-> None, chargingSchedulePeriod |-> periods]

\* ClearChargingProfile.req; an absent key is None
ClearRequest(id, connector, purpose, stack) ==
    [id |-> id, connectorId |-> connector, chargingProfilePurpose |-> purpose,
     stackLevel |-> stack]

NoProfile == Profile(None, None, None, "None", "None", "None", None, None, None, "None", <<>>)
NoRequest == ClearRequest(None, None, "None", None)
NoLimit == [power |-> None, current |-> None]

\* Python truthiness of an optional integer: None and 0 are both false
Truthy(x) == x # None /\ x # 0

\* `if ts:` followed by datetime.fromisoformat(ts) inside try/except: TRUE when
\* the timestamp is present and parses
Parses(ts) == ts # None /\ ts # BadTime

---------------------------------------------------------------------------
(* ChargingProfilesManager (charging_profiles.py): validation *)

Periods(p) == p.chargingSchedulePeriod

\* the loop of _validate_charging_profile over the periods: it returns at the
\* first period whose startPeriod does not exceed the previous one (-1 before
\* the first) or, that passing, whose limit is negative
StartPeriodFails(ps, i) ==
    ps[i].startPeriod <= (IF i = 1 THEN -1 ELSE ps[i - 1].startPeriod)

validate_periods(ps) ==
    LET failing == {i \in DOMAIN ps : StartPeriodFails(ps, i) \/ ps[i].limit < 0}
        first == CHOOSE i \in failing : \A j \in failing : i <= j
    IN  IF failing = {} THEN "Valid"
        ELSE IF StartPeriodFails(ps, first) THEN "StartPeriod"
        ELSE "Limit"

\* dict.get on connector_transactions, whose keys are 1..N
transaction_on(transactions, c) ==
    IF c \in DOMAIN transactions THEN transactions[c] ELSE None

validate_transaction(p, c, transactions) ==
    IF p.chargingProfilePurpose # "TxProfile" THEN "Valid"
    ELSE IF Truthy(p.transactionId)
         THEN IF transaction_on(transactions, c) # p.transactionId
              THEN "Transaction" ELSE "Valid"
         ELSE IF c = 0 THEN "Connector0" ELSE "Valid"

validate_charging_profile(p, c, transactions) ==
    IF p.stackLevel > ChargeProfileMaxStackLevel THEN "StackLevel"
    ELSE IF Len(Periods(p)) > ChargingScheduleMaxPeriods THEN "PeriodCount"
    ELSE IF validate_transaction(p, c, transactions) # "Valid"
         THEN validate_transaction(p, c, transactions)
    ELSE validate_periods(Periods(p))

\* "Power" / "Current" membership in the comma-separated configuration value
unit_supported(p, units) ==
    /\ p.chargingRateUnit = "W" => "Power" \in Range(units)
    /\ p.chargingRateUnit = "A" => "Current" \in Range(units)

\* mutant: an Amperes schedule is not held against max_current
validate_power_limits_watts_only(p) ==
    IF \E i \in DOMAIN Periods(p) :
          p.chargingRateUnit = "W" /\ Periods(p)[i].limit > max_power
    THEN "Exceeds" ELSE "Valid"

validate_power_limits(p) ==
    IF \E i \in DOMAIN Periods(p) :
          \/ p.chargingRateUnit = "W" /\ Periods(p)[i].limit > max_power
          \/ p.chargingRateUnit = "A" /\ Periods(p)[i].limit > max_current
    THEN "Exceeds" ELSE "Valid"

\* the status handle_set_charging_profile returns
set_status(c, p, transactions, units) ==
    IF c < 0 \/ c > NumberOfConnectors THEN "Rejected"
    ELSE IF validate_charging_profile(p, c, transactions) # "Valid" THEN "Rejected"
    ELSE IF ~unit_supported(p, units) THEN "NotSupported"
    ELSE IF validate_power_limits(p) # "Valid" THEN "Rejected"
    ELSE "Accepted"

---------------------------------------------------------------------------
(* ChargingProfilesManager: the store *)

\* a stored ChargingProfile object: the request's fields and the object's identity
Stored(p, object) == p @@ [object |-> object]

conflicts(existing, new) ==
    \/ existing.chargingProfileId = new.chargingProfileId
    \/ /\ existing.stackLevel = new.stackLevel
       /\ existing.chargingProfilePurpose = new.chargingProfilePurpose

\* mutant: the (stackLevel, purpose) test of _remove_conflicting_profiles dropped
remove_conflicting_profiles_by_id_only(list, new) ==
    SelectSeq(list, LAMBDA existing : existing.chargingProfileId # new.chargingProfileId)

remove_conflicting_profiles(list, new) ==
    SelectSeq(list, LAMBDA existing : ~conflicts(existing, new))

RemoveAt(s, i) == SubSeq(s, 1, i - 1) \o SubSeq(s, i + 1, Len(s))

\* list.sort(key=stack_level, reverse=True): stable, equal levels keep their order
RECURSIVE sort_by_stack_level(_)
sort_by_stack_level(list) ==
    IF list = <<>> THEN <<>>
    ELSE LET top == CHOOSE i \in DOMAIN list :
                      /\ \A j \in DOMAIN list : list[j].stackLevel <= list[i].stackLevel
                      /\ \A j \in 1 .. (i - 1) : list[j].stackLevel < list[i].stackLevel
         IN  <<list[top]>> \o sort_by_stack_level(RemoveAt(list, top))

---------------------------------------------------------------------------
(* ChargingProfilesManager: the limit in force *)

is_valid_at(p, t) ==
    /\ Parses(p.validFrom) => ~(t < p.validFrom)
    /\ Parses(p.validTo) => ~(t > p.validTo)

get_active_profiles(list, t) == SelectSeq(list, LAMBDA p : is_valid_at(p, t))

schedule_start(p, t) == IF Parses(p.startSchedule) THEN p.startSchedule ELSE t

\* mutant: a Daily profile is reduced modulo a week
reduce_elapsed_weekly(p, elapsed) ==
    IF p.chargingProfileKind = "Recurring" /\ p.recurrencyKind \in {"Daily", "Weekly"}
    THEN elapsed % SecondsPerWeek
    ELSE elapsed

reduce_elapsed(p, elapsed) ==
    IF p.chargingProfileKind = "Recurring" /\ p.recurrencyKind = "Daily"
    THEN elapsed % SecondsPerDay
    ELSE IF p.chargingProfileKind = "Recurring" /\ p.recurrencyKind = "Weekly"
    THEN elapsed % SecondsPerWeek
    ELSE elapsed

\* the final loop of _get_applicable_period: walks the periods in list order,
\* keeps the last one reached, stops at the first whose startPeriod is ahead.
\* The index of the period kept, 0 when none.
select_period(ps, elapsed) ==
    LET reached == {k \in DOMAIN ps : \A j \in 1 .. k : elapsed >= ps[j].startPeriod}
    IN  IF reached = {} THEN 0
        ELSE CHOOSE k \in reached : \A j \in reached : j <= k

\* lines 364-382: from the elapsed seconds to the period
period_at(p, elapsed) == select_period(Periods(p), reduce_elapsed(p, elapsed))

get_applicable_period(p, t) == period_at(p, t - schedule_start(p, t))

\* what one profile's applicable period writes into current_limits[c]
limits_from(p, limit, old) ==
    IF p.chargingRateUnit = "W"
    THEN [power |-> Min(limit, max_power), current |-> Min(limit, max_power) \div Voltage]
    ELSE IF p.chargingRateUnit = "A"
    THEN [power |-> Min(limit, max_current) * Voltage, current |-> Min(limit, max_current)]
    ELSE old

\* index in `active` of the profile at which the loop of _update_current_limits
\* breaks: the first one with an applicable period; 0 when the loop runs out
deciding_profile(active, t) ==
    LET with == {i \in DOMAIN active : get_applicable_period(active[i], t) # 0}
    IN  IF with = {} THEN 0 ELSE CHOOSE i \in with : \A j \in with : i <= j

\* current_limits[c] after _update_current_limits(c); `old` is its value before
update_current_limits(list, old, t) ==
    LET active == get_active_profiles(list, t)
        d == deciding_profile(active, t)
    IN  IF active = <<>> THEN NoLimit
        ELSE IF d = 0 THEN old
        ELSE limits_from(active[d],
                         Periods(active[d])[get_applicable_period(active[d], t)].limit,
                         old)

\* the profile object behind the value update_current_limits leaves in place
NoSource == Stored(NoProfile, 0)

update_limit_source(list, old_source, t) ==
    LET active == get_active_profiles(list, t)
        d == deciding_profile(active, t)
    IN  IF active = <<>> THEN NoSource
        ELSE IF d = 0 THEN old_source
        ELSE IF active[d].chargingRateUnit \in {"W", "A"} THEN active[d]
        ELSE old_source

\* lines 290-300: the limit pushed into the meter handler's values of a connector
\* that has them; a limit of None or 0 is not pushed
push_to_meter(meter, limits) ==
    IF ~meter.present THEN meter
    ELSE [meter EXCEPT
            !.power = IF Truthy(limits.power) THEN Min(limits.power, @) ELSE @,
            !.current = IF Truthy(limits.current) THEN Min(limits.current, @) ELSE @]

update_meter(list, meter, limits, t) ==
    IF deciding_profile(get_active_profiles(list, t), t) = 0 THEN meter
    ELSE push_to_meter(meter, limits)

---------------------------------------------------------------------------
(* ChargingProfilesManager: the requests *)

Pair(p) == <<p.stackLevel, p.chargingProfilePurpose>>

Served(op, c, p, request, status) ==
    [op |-> op, connector |-> c, profile |-> p, request |-> request, status |-> status]

\* mutant: the conflicting profiles are evicted before the checks are made
set_store_evicting_first(list, p, object, status) ==
    IF status = "Accepted"
    THEN sort_by_stack_level(Append(remove_conflicting_profiles(list, p), Stored(p, object)))
    ELSE remove_conflicting_profiles(list, p)

\* charging_profiles[c] after handle_set_charging_profile: untouched unless every
\* check passed, else evict, append, sort
set_store(list, p, object, status) ==
    IF status = "Accepted"
    THEN sort_by_stack_level(Append(remove_conflicting_profiles(list, p), Stored(p, object)))
    ELSE list

\* ChargingProfile(cs_charging_profiles) is constructed once the connector id
\* has passed, before validation: every such request makes one object
handle_set_charging_profile(c, p) ==
    LET status == set_status(c, p, connector_transactions, allowed_units)
        object == next_object + 1
    IN  /\ last' = Served("set", c, p, NoRequest, status)
        /\ IF c \in Connectors
           THEN LET list == set_store(charging_profiles[c], p, object, status)
                    limits == update_current_limits(list, current_limits[c], now)
                IN  /\ submitted' = [submitted EXCEPT ![c] = @ \cup {Pair(p)}]
                    /\ next_object' = object
                    /\ charging_profiles' = [charging_profiles EXCEPT ![c] = list]
                    /\ IF status = "Accepted"
                       THEN /\ current_limits' = [current_limits EXCEPT ![c] = limits]
                            /\ limit_source' = [limit_source EXCEPT
                                  ![c] = update_limit_source(list, @, now)]
                            /\ meter_values' = [meter_values EXCEPT
                                  ![c] = update_meter(list, @, limits, now)]
                       ELSE UNCHANGED <<current_limits, limit_source, meter_values>>
           ELSE UNCHANGED <<submitted, next_object, charging_profiles, current_limits,
                            limit_source, meter_values>>
        /\ UNCHANGED <<connector_transactions, connector_status, allowed_units, now>>
        /\ UNCHANGED <<handlerVars, periodVars, taskVars, sessionVars, telemetryVars>>

\* the test of handle_clear_charging_profile on one stored profile
clear_matches(request, p) ==
    \/ request.id # None /\ p.chargingProfileId = request.id
    \/ /\ request.connectorId # None
       /\ request.chargingProfilePurpose # "None"
       /\ p.chargingProfilePurpose = request.chargingProfilePurpose
       /\ request.stackLevel = None \/ p.stackLevel = request.stackLevel

\* mutant: the scan of all connectors starts at 1 and misses the charge point
connectors_to_check_physical(request) ==
    IF request.connectorId # None THEN {request.connectorId} ELSE PhysicalConnectors

connectors_to_check(request) ==
    IF request.connectorId # None THEN {request.connectorId} ELSE Connectors

clear_store(list, request) == SelectSeq(list, LAMBDA p : ~clear_matches(request, p))

\* charging_profiles[conn_id] with conn_id outside the dictionary raises KeyError
\* before anything is removed; handle_message logs it and no response is sent
handle_clear_charging_profile(request) ==
    LET scanned == connectors_to_check(request)
        raises == ~(scanned \subseteq Connectors)
        kept(c) == IF c \in scanned THEN clear_store(charging_profiles[c], request)
                   ELSE charging_profiles[c]
        cleared(c) == kept(c) # charging_profiles[c]
        limits(c) == update_current_limits(kept(c), current_limits[c], now)
        status == IF raises THEN "KeyError"
                  ELSE IF \E c \in Connectors : cleared(c) THEN "Accepted"
                  ELSE "Unknown"
    IN  /\ last' = Served("clear", None, NoProfile, request, status)
        /\ IF raises
           THEN UNCHANGED <<charging_profiles, current_limits, limit_source, meter_values>>
           ELSE /\ charging_profiles' = [c \in Connectors |-> kept(c)]
                /\ current_limits' = [c \in Connectors |->
                      IF cleared(c) THEN limits(c) ELSE current_limits[c]]
                /\ limit_source' = [c \in Connectors |->
                      IF cleared(c) THEN update_limit_source(kept(c), limit_source[c], now)
                      ELSE limit_source[c]]
                /\ meter_values' = [c \in Connectors |->
                      IF cleared(c) THEN update_meter(kept(c), meter_values[c], limits(c), now)
                      ELSE meter_values[c]]
        /\ UNCHANGED <<connector_transactions, connector_status, allowed_units, now,
                       next_object, submitted>>
        /\ UNCHANGED <<handlerVars, periodVars, taskVars, sessionVars, telemetryVars>>

\* get_current_limit(c): a copy of the stored entry, all-None for an unknown key
get_current_limit(c) == IF c \in DOMAIN current_limits THEN current_limits[c] ELSE NoLimit

\* the clock
Tick ==
    /\ now < MaxTime
    /\ now' = now + 1
    /\ UNCHANGED <<managerVars, handlerVars, periodVars, taskVars, simulatorVars, allowed_units,
                   sessionVars, dispatchVars, telemetryVars>>

---------------------------------------------------------------------------
(* State after construction *)

NoMeter == [present |-> FALSE, power |-> None, current |-> None,
            power_offered |-> None, current_offered |-> None]
\* initialize_connector: Power.Active.Import and Power.Offered 7400 W,
\* Current.Import and Current.Offered 32 A (the measurands the limits touch)
InitialMeter == [present |-> TRUE, power |-> DefaultMeterPower, current |-> DefaultMeterCurrent,
                 power_offered |-> DefaultMeterPower, current_offered |-> DefaultMeterCurrent]

NoneServed == Served("none", None, NoProfile, NoRequest, "None")
DefaultUnits == <<"Current", "Power">>

InitManager ==
    /\ charging_profiles = [c \in Connectors |-> <<>>]
    /\ current_limits = [c \in Connectors |-> NoLimit]
    /\ limit_source = [c \in Connectors |-> NoSource]
    /\ next_object = 0
    /\ submitted = [c \in Connectors |-> {}]
    /\ last = NoneServed

\* self.websocket = None; afterwards the connection object of the strategy that
\* succeeded: which strategy, the how-manieth connection, open or closed
NoSocket == [method |-> 0, number |-> 0, state |-> "None"]

\* no strategy tried yet in this connect cycle
NoAttempt == [method |-> 0, result |-> "None"]

InitSession ==
    /\ message_id = 0
    /\ pending_requests = <<>>
    /\ calls = <<>>
    /\ is_connected = FALSE
    /\ websocket = NoSocket
    /\ boot_notification_accepted = FALSE
    /\ reconnect_attempts = 0
    /\ connect_pc = "idle"
    /\ sleep_left = 0
    /\ boot_tasks = 0
    /\ loops = 0
    /\ attempt = NoAttempt
    /\ failed_cycles = 0

\* an inbound frame that is not the response to a call: what json.loads and
\* the unpacking of handle_call make of it, and of the payload of a
\* GetCompositeSchedule.req its connectorId, duration and chargingRateUnit;
\* `turn` alternates with every frame, so that two equal frames in a row are
\* two steps
Frame(turn, kind, id, action) ==
    [turn |-> turn, kind |-> kind, id |-> id, action |-> action,
     connectorId |-> None, duration |-> None, chargingRateUnit |-> "None"]
NoFrame == Frame(0, "None", None, "None")

\* a telemetry task: where it stands, the interval it sleeps for, the
\* transaction it samples, the call it awaits
Loop(pc, interval, tx, call) == [pc |-> pc, interval |-> interval, tx |-> tx, call |-> call]
NoLoop == Loop("none", None, None, 0)

InitDispatch ==
    /\ frame = NoFrame
    /\ responses = <<>>

\* MeterValueSampleInterval as ConfigurationManager constructs it; no
\* telemetry task exists yet
InitTelemetry ==
    /\ sample_interval = DefaultSampleInterval
    /\ meter_loops = [c \in PhysicalConnectors |-> NoLoop]
    /\ grid_loop = NoLoop
    /\ samples = [c \in Connectors |-> None]
    /\ heartbeat_loops = <<>>
    /\ earlier_loops = [c \in PhysicalConnectors |-> NoLoop]

\* the dictionary a caller of get_current_limit holds: of which connector, its
\* content, and whether it is the stored dictionary itself
View(c, value, stored) ==
    [connector |-> c, value |-> value, stored |-> stored, written |-> FALSE]
NoView == View(None, NoLimit, FALSE)

\* the handler message_handler awaits: where it stands, the id and action of
\* its request, the connector it is at, the payload, the status it will
\* answer, the ChargingProfile object it constructed, the start_transaction
\* invocation it awaits
Handler(pc, id, action, c) ==
    [pc |-> pc, id |-> id, action |-> action, connector |-> c, profile |-> NoProfile,
     request |-> NoRequest, status |-> "None", object |-> 0, start |-> 0]
NoHandler == Handler("idle", None, "None", None)

\* a frame of the central system: a request [2, id, action, payload] with the
\* connectorId, csChargingProfiles or ClearChargingProfile keys of its payload,
\* or the response [3, id, payload] to a call; `overlapped` records that it
\* arrived while a handler was running
Inbound(kind, id, action) ==
    [kind |-> kind, id |-> id, action |-> action, connector |-> None, profile |-> NoProfile,
     request |-> NoRequest, payload |-> "None", overlapped |-> FALSE]

\* the frames that arrived on the connection, in order, and how many of them
\* message_handler has read
NoInbox == [frames |-> <<>>, read |-> 0]

\* nothing was asked of the simulator from outside yet
InitTasks ==
    /\ limit_view = NoView
    /\ inbox = NoInbox
    /\ handler = NoHandler
    /\ starts = <<>>

InitSimulator ==
    /\ connector_transactions = [c \in PhysicalConnectors |-> None]
    /\ connector_status = [c \in PhysicalConnectors |-> "Available"]
    /\ meter_values = [c \in Connectors |-> NoMeter]
    /\ now = 0
    /\ InitSession
    /\ InitDispatch
    /\ InitTelemetry
    /\ InitTasks

NoHandlerLimit == [power_limit |-> None, current_limit |-> None, min_charging_rate |-> None]

InitHandler ==
    /\ active_profiles = [c \in Connectors |-> <<>>]
    /\ handler_limits = [c \in Connectors |-> NoHandlerLimit]
    /\ handler_last = NoneServed

NotEvaluated == [evaluated |-> FALSE, limit |-> None]

InitPeriod ==
    /\ period_profile = NoProfile
    /\ period_elapsed = 0
    /\ period_limit = NotEvaluated

---------------------------------------------------------------------------
(* The store under SetChargingProfile / ClearChargingProfile requests and time *)

Base(id, stack, purpose, unit, periods) ==
    Profile(id, None, stack, purpose, "Absolute", "None", None, None, None, unit, periods)

StoreProfiles ==
    { Base(1, 0, "TxDefaultProfile", "W", <<Period(0, 4600, None)>>),
      Base(2, 0, "TxDefaultProfile", "W", <<>>),
      Base(1, 1, "ChargePointMaxProfile", "A", <<Period(0, 10, None)>>),
      [Base(3, 2, "TxDefaultProfile", "W", <<Period(0, 6900, None)>>)
          EXCEPT !.validTo = 1],
      [Base(2, 1, "TxDefaultProfile", "A", <<Period(0, 20, None), Period(2, 30, None)>>)
          EXCEPT !.startSchedule = 1],
      Base(1, 0, "TxDefaultProfile", "W", <<Period(0, 11500, None)>>) }

StoreUnits == {DefaultUnits, <<"Current">>}

\* connector ids of the SetChargingProfile requests: the charge point, a
\* physical connector, and an id the charger does not have
StoreConnectors == {0, 1, NumberOfConnectors + 1}

ClearRequests ==
    { ClearRequest(1, None, "None", None),
      ClearRequest(None, None, "TxDefaultProfile", None),
      ClearRequest(None, 1, "TxDefaultProfile", None),
      ClearRequest(None, 0, "TxDefaultProfile", 0),
      ClearRequest(None, 1, "None", 0),
      ClearRequest(2, NumberOfConnectors + 1, "None", None) }

Init ==
    /\ InitManager /\ InitSimulator /\ InitHandler /\ InitPeriod
    /\ allowed_units \in StoreUnits

SetChargingProfile ==
    \E c \in StoreConnectors, p \in StoreProfiles :
        /\ next_object < MaxSets
        /\ handle_set_charging_profile(c, p)
        /\ UNCHANGED dispatchVars

ClearChargingProfile ==
    \E request \in ClearRequests :
        handle_clear_charging_profile(request) /\ UNCHANGED dispatchVars

Next == SetChargingProfile \/ ClearChargingProfile \/ Tick

Spec == Init /\ [][Next]_vars

---------------------------------------------------------------------------
(* The store holding a Relative profile accepted at time 0 (specification
   SpecRelative) *)

\* a Relative profile without startSchedule whose second period starts one
\* second after the first, above every stack level of StoreProfiles
RelativeProfile ==
    Profile(4, None, 3, "TxDefaultProfile", "Relative", "None", None, None, None, "W",
            <<Period(0, 6900, None), Period(1, 4600, None)>>)

\* SetChargingProfile for connector 1 with that profile, at time 0
SetRelativeProfile ==
    /\ now = 0
    /\ next_object < MaxSets
    /\ handle_set_charging_profile(1, RelativeProfile)
    /\ UNCHANGED dispatchVars

NextRelative == SetRelativeProfile \/ SetChargingProfile \/ ClearChargingProfile \/ Tick

SpecRelative == Init /\ [][NextRelative]_vars

---------------------------------------------------------------------------
(* EVChargerSimulator: transactions, as far as the profile checks see them *)


\* send_meter_values_loop(c, tid) from its creation to its first sleep: with
\* an interval of 0 it returns at once; otherwise it initialises the
\* connector's meter values if it has none and sleeps for the interval
meter_loop_starts(c, tid) ==
    IF sample_interval = 0
    THEN UNCHANGED <<meter_values, meter_loops, earlier_loops>>
    ELSE /\ meter_values' = [meter_values EXCEPT ![c] = IF @.present THEN @ ELSE InitialMeter]
         /\ meter_loops' = [meter_loops EXCEPT ![c] = Loop("sleeping", sample_interval, tid, 0)]
         /\ earlier_loops' = [earlier_loops EXCEPT
                ![c] = IF meter_loops[c] # NoLoop THEN meter_loops[c] ELSE @]

\* start_transaction on an Available connector, authorised and answered with
\* transaction id `tid`: the id is recorded, the connector goes to Charging and
\* the send_meter_values_loop task is created, which runs up to its first sleep
start_transaction(c, tid) ==
    /\ c \in PhysicalConnectors
    /\ connector_status[c] = "Available"
    /\ connector_transactions' = [connector_transactions EXCEPT ![c] = tid]
    /\ connector_status' = [connector_status EXCEPT ![c] = "Charging"]
    /\ meter_loop_starts(c, tid)
    /\ UNCHANGED <<charging_profiles, current_limits, limit_source, next_object,
                   submitted, last, allowed_units, now>>
    /\ UNCHANGED <<handlerVars, periodVars, taskVars, sessionVars, dispatchVars>>
    /\ UNCHANGED <<sample_interval, grid_loop, samples, heartbeat_loops>>

\* stop_transaction(connector_id=c), answered: the id is cleared and the
\* connector returns to Available
stop_transaction(c) ==
    /\ c \in PhysicalConnectors
    /\ connector_transactions[c] # None
    /\ connector_transactions' = [connector_transactions EXCEPT ![c] = None]
    /\ connector_status' = [connector_status EXCEPT ![c] = "Available"]
    /\ UNCHANGED <<charging_profiles, current_limits, limit_source, next_object,
                   submitted, last, meter_values, allowed_units, now>>
    /\ UNCHANGED <<handlerVars, periodVars, taskVars, sessionVars, dispatchVars, telemetryVars>>

---------------------------------------------------------------------------
(* The checks of SetChargingProfile, one request against every configuration *)

Tx(id, tx, periods) ==
    Profile(id, tx, 0, "TxProfile", "Absolute", "None", None, None, None, "W", periods)

SevenPeriods == [i \in 1 .. 7 |-> Period(i - 1, 2300, None)]

ValidationProfiles ==
    { Base(1, 0, "TxDefaultProfile", "W", <<Period(0, 4600, None)>>),
      Base(1, 11, "TxDefaultProfile", "W", <<Period(0, 4600, None)>>),
      Base(1, 11, "TxDefaultProfile", "W", <<Period(0, 11500, None)>>),
      Base(1, 0, "TxDefaultProfile", "W", SevenPeriods),
      Base(1, 0, "TxDefaultProfile", "W", <<Period(0, 4600, None), Period(0, 2300, None)>>),
      Base(1, 0, "TxDefaultProfile", "A", <<Period(0, 10, None), Period(5, -5, None)>>),
      Base(1, 0, "TxDefaultProfile", "W", <<Period(0, 11500, None)>>),
      Base(1, 0, "TxDefaultProfile", "A", <<Period(0, 50, None)>>),
      Base(1, 0, "TxDefaultProfile", "A", <<Period(0, 20, None)>>),
      Base(1, 0, "TxDefaultProfile", "A", <<Period(0, 20, 1)>>),
      Tx(1, None, <<Period(0, 4600, None)>>),
      Tx(1, 0, <<Period(0, 4600, None)>>),
      Tx(1, 1, <<Period(0, 4600, None)>>),
      Tx(1, 2, <<Period(0, 4600, None), Period(0, 2300, None)>>),
      Tx(1, 1, <<Period(0, 11500, None)>>) }

ValidationUnits == {DefaultUnits, <<"Current">>, <<"Power">>}
TransactionIds == {1, 2}

InitValidate ==
    /\ InitManager /\ InitSimulator /\ InitHandler /\ InitPeriod
    /\ allowed_units \in ValidationUnits

ValidateSetChargingProfile ==
    \E c \in 0 .. (NumberOfConnectors + 1), p \in ValidationProfiles :
        /\ last.op = "none"
        /\ handle_set_charging_profile(c, p)
        /\ UNCHANGED dispatchVars

StartTransaction ==
    \E c \in PhysicalConnectors, tid \in TransactionIds : start_transaction(c, tid)

StopTransaction == \E c \in PhysicalConnectors : stop_transaction(c)

NextValidate == ValidateSetChargingProfile \/ StartTransaction \/ StopTransaction

SpecValidate == InitValidate /\ [][NextValidate]_vars

---------------------------------------------------------------------------
(* ChargingProfileHandler (charging_profile_handler.py) *)

\* ChargingSchedule.__init__: periods.sort(key=start_period), stable
RECURSIVE sort_periods(_)
sort_periods(ps) ==
    IF ps = <<>> THEN <<>>
    ELSE LET first == CHOOSE i \in DOMAIN ps :
                        /\ \A j \in DOMAIN ps : ps[i].startPeriod <= ps[j].startPeriod
                        /\ \A j \in 1 .. (i - 1) : ps[i].startPeriod < ps[j].startPeriod
         IN  <<ps[first]>> \o sort_periods(RemoveAt(ps, first))

\* ChargingProfile.__init__: the fields, the periods sorted, created_at
handler_profile(p, object, t) ==
    [p EXCEPT !.chargingSchedulePeriod = sort_periods(@)]
        @@ [object |-> object, created_at |-> t]

\* _validate_charging_profile: stack level, period count, periods, transaction
handler_validate_charging_profile(p, c, transactions) ==
    IF p.stackLevel > ChargeProfileMaxStackLevel THEN "StackLevel"
    ELSE IF Len(Periods(p)) > ChargingScheduleMaxPeriods THEN "PeriodCount"
    ELSE IF validate_periods(Periods(p)) # "Valid" THEN validate_periods(Periods(p))
    ELSE validate_transaction(p, c, transactions)

\* lines 131-144: Watts against max_power; Amperes times 230 V times the
\* period's phases (3 when absent or 0) against max_power
handler_exceeds_power(p) ==
    \E i \in DOMAIN Periods(p) :
        \/ /\ p.chargingRateUnit = "W"
           /\ Periods(p)[i].limit > handler_max_power
        \/ /\ p.chargingRateUnit = "A"
           /\ Periods(p)[i].limit * Voltage *
                 (IF Truthy(Periods(p)[i].numberPhases) THEN Periods(p)[i].numberPhases
                  ELSE DefaultPhases) > handler_max_power

handler_set_status(c, p, transactions, units) ==
    IF c < 0 \/ c > NumberOfConnectors THEN "Rejected"
    ELSE IF handler_validate_charging_profile(p, c, transactions) # "Valid" THEN "Rejected"
    ELSE IF ~unit_supported(p, units) THEN "NotSupported"
    ELSE IF handler_exceeds_power(p) THEN "Rejected"
    ELSE "Accepted"

\* _is_profile_active: the validity window, and for a TxProfile bound to a
\* transaction, that transaction being on some connector
is_profile_active(p, t, transactions) ==
    /\ is_valid_at(p, t)
    /\ (p.chargingProfilePurpose = "TxProfile" /\ Truthy(p.transactionId))
          => \E c \in DOMAIN transactions : transactions[c] = p.transactionId

handler_schedule_start(p, t) ==
    IF p.startSchedule # None
    THEN IF Parses(p.startSchedule) THEN p.startSchedule ELSE t
    ELSE IF p.chargingProfileKind = "Relative" THEN p.created_at
    ELSE t

\* _get_current_period_limit: the index of the period in force, 0 when none
get_current_period_limit(p, t) == period_at(p, t - handler_schedule_start(p, t))

\* _calculate_effective_limits(c): the connector's active profiles, then the
\* charge point's when c > 0, sorted by stack level; the first with a period in
\* force decides
handler_candidates(store, c, t, transactions) ==
    LET own == SelectSeq(store[c], LAMBDA p : is_profile_active(p, t, transactions))
        point == IF c > 0
                 THEN SelectSeq(store[0], LAMBDA p : is_profile_active(p, t, transactions))
                 ELSE <<>>
    IN  sort_by_stack_level(own \o point)

handler_limits_from(p, limit) ==
    [power_limit |-> IF p.chargingRateUnit = "W" THEN limit
                     ELSE IF p.chargingRateUnit = "A" THEN limit * Voltage ELSE None,
     current_limit |-> IF p.chargingRateUnit = "W" THEN limit \div Voltage
                       ELSE IF p.chargingRateUnit = "A" THEN limit ELSE None,
     min_charging_rate |-> p.minChargingRate]

\* mutant: only the candidate on top is asked for its period
calculate_effective_limits_top_only(store, c, t, transactions) ==
    LET all == handler_candidates(store, c, t, transactions)
    IN  IF all = <<>> \/ get_current_period_limit(all[1], t) = 0 THEN NoHandlerLimit
        ELSE handler_limits_from(all[1],
                                 Periods(all[1])[get_current_period_limit(all[1], t)].limit)

calculate_effective_limits(store, c, t, transactions) ==
    LET all == handler_candidates(store, c, t, transactions)
        with == {i \in DOMAIN all : get_current_period_limit(all[i], t) # 0}
        d == CHOOSE i \in with : \A j \in with : i <= j
    IN  IF with = {} THEN NoHandlerLimit
        ELSE handler_limits_from(all[d],
                                 Periods(all[d])[get_current_period_limit(all[d], t)].limit)

Max(a, b) == IF a >= b THEN a ELSE b

\* _apply_limits_to_meter_values: the connector's meter values are created when
\* missing, then clamped (the Voltage it re-derives is telemetry left out)
apply_limits_to_meter_values(meter, limits) ==
    LET m == IF meter.present THEN meter ELSE InitialMeter
        power == IF limits.power_limit # None THEN Min(m.power, limits.power_limit)
                 ELSE m.power
        current == IF limits.current_limit # None THEN Min(m.current, limits.current_limit)
                   ELSE m.current
    IN  [present |-> TRUE,
         power |-> IF limits.min_charging_rate # None /\ limits.power_limit # None
                   THEN Max(power, limits.min_charging_rate) ELSE power,
         current |-> current,
         power_offered |-> IF limits.power_limit # None THEN power ELSE m.power_offered,
         current_offered |-> IF limits.current_limit # None THEN current
                             ELSE m.current_offered]

handler_set_store(list, p, object, t, status) ==
    IF status = "Accepted"
    THEN sort_by_stack_level(Append(remove_conflicting_profiles(list, p),
                                    handler_profile(p, object, t)))
    ELSE list

handler_handle_set_charging_profile(c, p) ==
    LET status == handler_set_status(c, [p EXCEPT !.chargingSchedulePeriod = sort_periods(@)],
                                     connector_transactions, allowed_units)
        object == next_object + 1
    IN  /\ handler_last' = Served("set", c, p, NoRequest, status)
        /\ IF c \in Connectors
           THEN LET list == handler_set_store(active_profiles[c], p, object, now, status)
                    store == [active_profiles EXCEPT ![c] = list]
                    limits == calculate_effective_limits(store, c, now, connector_transactions)
                IN  /\ next_object' = object
                    /\ active_profiles' = store
                    /\ IF status = "Accepted"
                       THEN /\ handler_limits' = [handler_limits EXCEPT ![c] = limits]
                            /\ meter_values' = [meter_values EXCEPT
                                  ![c] = apply_limits_to_meter_values(@, limits)]
                       ELSE UNCHANGED <<handler_limits, meter_values>>
           ELSE UNCHANGED <<next_object, active_profiles, handler_limits, meter_values>>
        /\ UNCHANGED <<charging_profiles, current_limits, limit_source, submitted, last>>
        /\ UNCHANGED <<connector_transactions, connector_status, allowed_units, now>>
        /\ UNCHANGED <<periodVars, taskVars, sessionVars, dispatchVars, telemetryVars>>

\* the test of ChargingProfileHandler.handle_clear_charging_profile: a purpose
\* matches whether or not a connectorId came with it
handler_clear_matches(request, p) ==
    \/ request.id # None /\ p.chargingProfileId = request.id
    \/ /\ request.chargingProfilePurpose # "None"
       /\ p.chargingProfilePurpose = request.chargingProfilePurpose
       /\ request.stackLevel = None \/ p.stackLevel = request.stackLevel

handler_handle_clear_charging_profile(request) ==
    LET scanned == connectors_to_check(request)
        raises == ~(scanned \subseteq Connectors)
        kept(c) == IF c \in scanned
                   THEN SelectSeq(active_profiles[c],
                                  LAMBDA p : ~handler_clear_matches(request, p))
                   ELSE active_profiles[c]
        cleared(c) == kept(c) # active_profiles[c]
        \* connectors are scanned in ascending order: connector c is recomputed
        \* when connectors below it are already cleared, those above not yet
        during(c) == [k \in Connectors |-> IF k <= c THEN kept(k) ELSE active_profiles[k]]
        limits(c) == calculate_effective_limits(during(c), c, now, connector_transactions)
        status == IF raises THEN "KeyError"
                  ELSE IF \E c \in Connectors : cleared(c) THEN "Accepted"
                  ELSE "Unknown"
    IN  /\ handler_last' = Served("clear", None, NoProfile, request, status)
        /\ IF raises
           THEN UNCHANGED <<active_profiles, handler_limits, meter_values>>
           ELSE /\ active_profiles' = [c \in Connectors |-> kept(c)]
                /\ handler_limits' = [c \in Connectors |->
                      IF cleared(c) THEN limits(c) ELSE handler_limits[c]]
                /\ meter_values' = [c \in Connectors |->
                      IF cleared(c) THEN apply_limits_to_meter_values(meter_values[c], limits(c))
                      ELSE meter_values[c]]
        /\ UNCHANGED <<charging_profiles, current_limits, limit_source, submitted, last,
                       next_object>>
        /\ UNCHANGED <<connector_transactions, connector_status, allowed_units, now>>
        /\ UNCHANGED <<periodVars, taskVars, sessionVars, dispatchVars, telemetryVars>>

\* get_current_charging_limit(c): a copy of the stored entry
get_current_charging_limit(c) ==
    IF c \in DOMAIN handler_limits THEN handler_limits[c] ELSE NoHandlerLimit

---------------------------------------------------------------------------
(* ChargingProfileHandler under set, clear and the passing of time
   (specification SpecHandler) *)

HandlerBase(id, stack, purpose, kind, unit, periods) ==
    Profile(id, None, stack, purpose, kind, "None", None, None, None, unit, periods)

HandlerProfiles ==
    { HandlerBase(1, 1, "ChargePointMaxProfile", "Absolute", "W", <<Period(0, 11500, None)>>),
      HandlerBase(2, 2, "TxDefaultProfile", "Absolute", "W", <<Period(0, 4600, None)>>),
      HandlerBase(3, 0, "TxDefaultProfile", "Absolute", "A", <<Period(0, 16, None)>>),
      HandlerBase(4, 3, "TxDefaultProfile", "Relative", "W",
                  <<Period(1, 9200, None), Period(0, 6900, None)>>),
      HandlerBase(5, 1, "TxDefaultProfile", "Absolute", "A", <<Period(0, 32, None)>>),
      [HandlerBase(1, 0, "ChargePointMaxProfile", "Absolute", "W", <<Period(0, 2300, None)>>)
          EXCEPT !.minChargingRate = 4600] }

HandlerConnectors == {0, 1, NumberOfConnectors + 1}

HandlerClearRequests ==
    { ClearRequest(1, None, "None", None),
      ClearRequest(None, None, "TxDefaultProfile", None),
      ClearRequest(None, 1, "TxDefaultProfile", 2),
      ClearRequest(2, NumberOfConnectors + 1, "None", None) }

InitHandlerSpec ==
    /\ InitManager
    /\ InitHandler
    /\ InitPeriod
    /\ InitSimulator
    /\ allowed_units = DefaultUnits
    /\ now = 0

HandlerSetChargingProfile ==
    /\ next_object < MaxSets
    /\ \E c \in HandlerConnectors, p \in HandlerProfiles :
          handler_handle_set_charging_profile(c, p)

HandlerClearChargingProfile ==
    \E request \in HandlerClearRequests : handler_handle_clear_charging_profile(request)

NextHandler == HandlerSetChargingProfile \/ HandlerClearChargingProfile \/ Tick

SpecHandler == InitHandlerSpec /\ [][NextHandler]_vars

\* ChargingProfileHandler while transactions start and stop (specification
\* SpecHandlerTx): a TxProfile bound to transaction 1 and a default profile
HandlerTxProfiles ==
    { Tx(6, 1, <<Period(0, 3450, None)>>),
      HandlerBase(3, 1, "TxDefaultProfile", "Absolute", "A", <<Period(0, 16, None)>>) }

HandlerTxSetChargingProfile ==
    /\ next_object < MaxSets
    /\ \E c \in PhysicalConnectors, p \in HandlerTxProfiles :
          handler_handle_set_charging_profile(c, p)

NextHandlerTx ==
    \/ HandlerTxSetChargingProfile \/ HandlerClearChargingProfile
    \/ StartTransaction \/ StopTransaction

SpecHandlerTx == InitHandlerSpec /\ [][NextHandlerTx]_vars

---------------------------------------------------------------------------
(* Profiles whose schedule has no period in force stacked above profiles that
   have one, in both stores (specification SpecFallThrough) *)

\* stack level 3 has no period at all, 2 a first offset one second ahead, 1 a
\* schedule that starts at second 2; the levels 0 have a period from the start
FallThroughProfiles ==
    { HandlerBase(1, 3, "TxDefaultProfile", "Absolute", "W", <<>>),
      HandlerBase(2, 2, "TxDefaultProfile", "Relative", "W", <<Period(1, 9200, None)>>),
      [HandlerBase(3, 1, "TxDefaultProfile", "Absolute", "A", <<Period(0, 16, None)>>)
          EXCEPT !.startSchedule = 2],
      HandlerBase(4, 0, "ChargePointMaxProfile", "Absolute", "W", <<Period(0, 4600, None)>>),
      HandlerBase(5, 0, "TxDefaultProfile", "Absolute", "A", <<Period(0, 10, None)>>) }

\* SetChargingProfile requests served in one behaviour, by either store
MaxFallThroughSets == 4

FallThroughSetChargingProfile ==
    /\ next_object < MaxFallThroughSets
    /\ \E c \in {1}, p \in {q \in FallThroughProfiles : q.chargingProfileId \in {1, 5}} :
          handle_set_charging_profile(c, p) /\ UNCHANGED dispatchVars

FallThroughHandlerSetChargingProfile ==
    /\ next_object < MaxFallThroughSets
    /\ \E p \in {q \in FallThroughProfiles : q.chargingProfileId # 5} :
          handler_handle_set_charging_profile(
              IF p.chargingProfilePurpose = "ChargePointMaxProfile" THEN 0 ELSE 1, p)

NextFallThrough ==
    FallThroughSetChargingProfile \/ FallThroughHandlerSetChargingProfile \/ Tick

SpecFallThrough == InitHandlerSpec /\ [][NextFallThrough]_vars

---------------------------------------------------------------------------
(* The period in force as a function of the elapsed seconds
   (specification SpecPeriod) *)

Recurring(recurrency, periods) ==
    Profile(1, None, 0, "TxDefaultProfile", "Recurring", recurrency, None, None, None, "W",
            periods)

DailyExample == Recurring("Daily", <<Period(0, 11000, None), Period(3600, 7400, None)>>)

PeriodProfiles ==
    { DailyExample,
      Recurring("Weekly", <<Period(0, 11000, None), Period(3600, 7400, None)>>),
      Recurring("Daily", <<Period(3600, 7400, None), Period(7200, 4600, None)>>),
      Recurring("None", <<Period(0, 11000, None), Period(3600, 7400, None)>>),
      [DailyExample EXCEPT !.chargingProfileKind = "Absolute"] }

Offsets == {0, 1, 3599, 3600, 3601, 7200, SecondsPerDay - 1}

ElapsedSeconds ==
    {o + d * SecondsPerDay : o \in Offsets, d \in 0 .. MaxElapsedDays}
        \cup {o + w * SecondsPerWeek : o \in Offsets, w \in 0 .. MaxElapsedDays}
        \cup {-1, 3600 - SecondsPerDay}

InitPeriodSpec ==
    /\ InitManager
    /\ InitHandler
    /\ InitSimulator
    /\ allowed_units = DefaultUnits
    /\ now = 0
    /\ period_profile \in PeriodProfiles
    /\ period_elapsed \in ElapsedSeconds
    /\ period_limit = NotEvaluated

\* lines 364-382 of _get_applicable_period on the profile and elapsed seconds
\* at hand: the limit of the period found, None when there is none
EvaluatePeriod ==
    /\ ~period_limit.evaluated
    /\ LET i == period_at(period_profile, period_elapsed)
       IN  period_limit' = [evaluated |-> TRUE,
                            limit |-> IF i = 0 THEN None
                                      ELSE Periods(period_profile)[i].limit]
    /\ UNCHANGED <<period_profile, period_elapsed>>
    /\ UNCHANGED <<managerVars, handlerVars, simulatorVars, allowed_units, now,
                   sessionVars, dispatchVars, telemetryVars, taskVars>>

\* the next evaluation, at another elapsed time
NextElapsed ==
    /\ period_limit.evaluated
    /\ period_elapsed' \in ElapsedSeconds
    /\ period_limit' = NotEvaluated
    /\ UNCHANGED period_profile
    /\ UNCHANGED <<managerVars, handlerVars, simulatorVars, allowed_units, now,
                   sessionVars, dispatchVars, telemetryVars, taskVars>>

NextPeriod == EvaluatePeriod \/ NextElapsed

SpecPeriod == InitPeriodSpec /\ [][NextPeriod]_vars

---------------------------------------------------------------------------
(* EVChargerSimulator (ev_charger_simulator.py): the calls of the simulator
   and their responses *)

\* mutant: the counter stops at 1
get_next_message_id_saturating(mid) == Min(mid + 1, 1)

\* get_next_message_id: self.message_id += 1, and its value is the id
get_next_message_id(mid) == mid + 1

\* a send_call invocation: its id and action, the connection it was sent on,
\* its future, the envelope id that resolved it, and how it ended
Call(id, action, outcome, connection) ==
    [id |-> id, action |-> action, connection |-> connection, future |-> "pending",
     outcome |-> outcome, payload |-> "None", by |-> None, waited |-> 0]

\* self.pending_requests[message_id] = future
Register(pending, id, k) == (id :> k) @@ pending

\* mutant: the entry stays
Deregister_keeping(pending, id) == pending

\* del self.pending_requests[message_id]
Deregister(pending, id) == [x \in (DOMAIN pending) \ {id} |-> pending[x]]

\* send_call while is_connected and the websocket is set (otherwise it raises
\* before an id is taken): the id is taken, the future registered, the frame
\* sent; websocket.send raises on a closed connection, and the caller then
\* leaves with that exception, never awaiting the future
send_call(action) ==
    LET id == get_next_message_id(message_id)
        outcome == IF websocket.state = "open" THEN "none" ELSE "send_failed"
    IN  /\ message_id' = id
        /\ calls' = Append(calls, Call(id, action, outcome, websocket.number))
        /\ pending_requests' = Register(pending_requests, id, Len(calls) + 1)

\* the call is suspended in asyncio.wait_for
Suspended(call) == call.future = "pending" /\ call.outcome = "none"

\* mutant: the oldest suspended call takes the response, whatever its id
awaited_by_arrival_order(pending, id) ==
    LET waiting == {k \in DOMAIN calls : Suspended(calls[k])}
    IN  IF waiting = {} THEN 0 ELSE CHOOSE k \in waiting : \A j \in waiting : k <= j

\* `if message_id in self.pending_requests`: the call whose future is
\* registered under the id, 0 when there is none
awaited_by(pending, id) == IF id \in DOMAIN pending THEN pending[id] ELSE 0

\* handle_call_result / handle_call_error on an envelope: set_result or
\* set_exception on the registered future, then del; on a future that
\* wait_for has already cancelled set_result raises InvalidStateError, which
\* handle_message logs, and the del is not reached; the timer of wait_for ends
\* with the future
resolve(e) ==
    LET k == awaited_by(pending_requests, e.id)
        state == IF e.kind = "Result" THEN "result" ELSE "error"
    IN  IF k = 0 \/ calls[k].future # "pending"
        THEN UNCHANGED <<calls, pending_requests>>
        ELSE /\ calls' = [calls EXCEPT ![k].future = state,
                                       ![k].payload = e.payload,
                                       ![k].by = e.id,
                                       ![k].waited = 0,
                                       ![k].outcome = IF @ = "none" THEN state ELSE @]
             /\ pending_requests' = Deregister(pending_requests, calls[k].id)

\* mutant: any answer is taken for an acceptance
accepted_whatever(payload) == TRUE

\* `if response.get("status") == "Accepted"`
accepted(payload) == payload = "Accepted"

\* send_grid_meter_values_loop from its creation to its first sleep: with an
\* interval of 0 it returns at once; MeterValuesSampledData names
\* Power.Active.Import, an inlet measurand; grid_loop is the task created last
grid_loop_starts ==
    IF sample_interval = 0
    THEN UNCHANGED grid_loop
    ELSE grid_loop' = Loop("sleeping", sample_interval, None, 0)

\* heartbeat_loop from its creation to its first sleep: the task is created
\* right after boot_notification_accepted = True, so that its while condition
\* holds
heartbeat_loop_starts ==
    heartbeat_loops' = Append(heartbeat_loops, Loop("sleeping", heartbeat_interval, None, 0))

\* send_boot_notification after `response = await self.send_call(...)`:
\* Accepted sets the flag and creates the heartbeat and grid telemetry tasks;
\* any other status sleeps for the interval of the response and sends again; an
\* exception is logged
boot_continues(e) ==
    LET k == awaited_by(pending_requests, e.id)
        resumes == /\ k # 0
                   /\ Suspended(calls[k])
                   /\ calls[k].action = "BootNotification"
                   /\ e.kind = "Result"
    IN  IF resumes /\ accepted(e.payload)
        THEN /\ boot_notification_accepted' = TRUE
             /\ loops' = loops + 1
             /\ heartbeat_loop_starts
             /\ grid_loop_starts
             /\ UNCHANGED boot_tasks
        ELSE IF resumes
        THEN /\ boot_tasks' = boot_tasks + 1
             /\ UNCHANGED <<boot_notification_accepted, loops, grid_loop, heartbeat_loops>>
        ELSE UNCHANGED <<bootVars, grid_loop, heartbeat_loops>>

Receiving == connect_pc = "connected" /\ websocket.state = "open"

\* handle_message on a Result or Error envelope read by message_handler
handle_message(e) ==
    /\ Receiving
    /\ resolve(e)
    /\ boot_continues(e)
    /\ UNCHANGED <<message_id, connectionVars>>
    /\ UNCHANGED <<profileVars, taskVars, dispatchVars, sample_interval, meter_loops, samples,
                   earlier_loops>>

\* asyncio.wait_for(future, timeout=30) when the 30 seconds are over: the
\* future is cancelled; the caller resumes later
wait_for_expires(k) ==
    /\ k \in DOMAIN calls
    /\ Suspended(calls[k])
    /\ calls[k].waited >= CallTimeout
    /\ calls' = [calls EXCEPT ![k].future = "cancelled"]
    /\ UNCHANGED <<message_id, pending_requests, connectionVars, bootVars>>
    /\ UNCHANGED <<profileVars, taskVars, dispatchVars, telemetryVars>>

\* mutant: the entry is left registered
timeout_deregisters_nothing(pending, id) == pending

\* `if message_id in self.pending_requests: del ...`
timeout_deregisters(pending, id) == Deregister(pending, id)

\* the `except asyncio.TimeoutError` of send_call: the entry is deleted and the
\* timeout raised to the caller
send_call_times_out(k) ==
    /\ k \in DOMAIN calls
    /\ calls[k].future = "cancelled"
    /\ calls[k].outcome = "none"
    /\ calls' = [calls EXCEPT ![k].outcome = "timeout"]
    /\ pending_requests' = timeout_deregisters(pending_requests, calls[k].id)
    /\ UNCHANGED <<message_id, connectionVars, bootVars>>
    /\ UNCHANGED <<profileVars, taskVars, dispatchVars, telemetryVars>>

\* a task of the simulator (heartbeat_loop, send_status_notification, ...)
\* calls send_call
call_from_task(action) ==
    /\ is_connected /\ websocket # NoSocket
    /\ message_id < MaxCalls
    /\ send_call(action)
    /\ UNCHANGED <<connectionVars, bootVars>>
    /\ UNCHANGED <<profileVars, taskVars, dispatchVars, telemetryVars>>

\* send_boot_notification reaches its send_call; not connected, send_call
\* raises and the exception is logged
send_boot_notification ==
    /\ boot_tasks > 0
    /\ boot_tasks' = boot_tasks - 1
    /\ IF is_connected /\ websocket # NoSocket
       THEN message_id < MaxCalls /\ send_call("BootNotification")
       ELSE UNCHANGED <<message_id, calls, pending_requests>>
    /\ UNCHANGED <<connectionVars, boot_notification_accepted, loops>>
    /\ UNCHANGED <<profileVars, taskVars, dispatchVars, telemetryVars>>

---------------------------------------------------------------------------
(* EVChargerSimulator: connect cycles and the receive loop *)

\* connection_methods, in the order connect() tries them
connection_methods ==
    <<"_connect_with_headers", "_connect_with_embedded_auth", "_connect_basic">>

\* what websockets.connect does to a strategy: the connection, an
\* InvalidStatus with status code 401 or another one, any other exception
StrategyResults == {"connected", "401", "status", "error"}

Attempt(method, result) == [method |-> method, result |-> result]

\* mutant: the retries go on for ever
gives_up_never(attempts) == FALSE

\* `if self.reconnect_attempts >= self.max_reconnect_attempts`
gives_up(attempts) == attempts >= max_reconnect_attempts

\* handle_connection_failure up to its sleep: the counter, then either the
\* return of "Giving up" or the 5 seconds before connect()
handle_connection_failure ==
    /\ reconnect_attempts' = reconnect_attempts + 1
    /\ IF gives_up(reconnect_attempts + 1)
       THEN connect_pc' = "given_up" /\ sleep_left' = 0
       ELSE connect_pc' = "sleeping" /\ sleep_left' = ReconnectDelay

\* mutant: a 401 falls through like any other failure
is_terminal_never(result) == FALSE

\* `if e.response.status_code == 401: ... return`
is_terminal(result) == result = "401"

\* mutant: the strategy after the next one
next_method_skipping(previous) == Min(previous.method + 2, Len(connection_methods))

\* the for loop of connect(): the strategy that follows the one tried last
next_method(previous) == previous.method + 1

\* connect() is called on the simulator just constructed
connect ==
    /\ connect_pc = "idle"
    /\ connect_pc' = "connecting"
    /\ attempt' = NoAttempt
    /\ UNCHANGED <<is_connected, websocket, reconnect_attempts, sleep_left, failed_cycles>>
    /\ UNCHANGED <<correlatorVars, bootVars>>
    /\ UNCHANGED <<profileVars, taskVars, dispatchVars, telemetryVars>>

\* one turn of the for loop of connect(): the strategy is awaited; success sets
\* the websocket and is_connected, resets the counter and starts
\* message_handler and send_boot_notification; a 401 returns; another failure
\* goes on to the next strategy and, after the last, to
\* handle_connection_failure
try_method(result) ==
    LET i == next_method(attempt)
    IN  /\ connect_pc = "connecting"
        /\ i <= Len(connection_methods)
        /\ attempt' = Attempt(i, result)
        /\ IF result = "connected"
           THEN /\ websocket.number < MaxConnections
                /\ websocket' = [method |-> i, number |-> websocket.number + 1,
                                 state |-> "open"]
                /\ is_connected' = TRUE
                /\ reconnect_attempts' = 0
                /\ connect_pc' = "connected"
                /\ boot_tasks' = boot_tasks + 1
                /\ failed_cycles' = 0
                /\ UNCHANGED sleep_left
           ELSE IF is_terminal(result)
           THEN /\ connect_pc' = "unauthorized"
                /\ failed_cycles' = failed_cycles + 1
                /\ UNCHANGED <<websocket, is_connected, reconnect_attempts, sleep_left,
                               boot_tasks>>
           ELSE IF i = Len(connection_methods)
           THEN /\ handle_connection_failure
                /\ failed_cycles' = failed_cycles + 1
                /\ UNCHANGED <<websocket, is_connected, boot_tasks>>
           ELSE UNCHANGED <<websocket, is_connected, reconnect_attempts, connect_pc,
                            sleep_left, boot_tasks, failed_cycles>>
        /\ UNCHANGED <<correlatorVars, boot_notification_accepted, loops>>
        /\ UNCHANGED <<profileVars, taskVars, dispatchVars, telemetryVars>>

\* handle_connection_failure after its sleep: `await self.connect()`
reconnect ==
    /\ connect_pc = "sleeping"
    /\ sleep_left = 0
    /\ connect_pc' = "connecting"
    /\ attempt' = NoAttempt
    /\ UNCHANGED <<is_connected, websocket, reconnect_attempts, sleep_left, failed_cycles>>
    /\ UNCHANGED <<correlatorVars, bootVars>>
    /\ UNCHANGED <<profileVars, taskVars, dispatchVars, telemetryVars>>

\* how the connection ends under `async for message in self.websocket`: closed
\* with an error code (the iterator raises ConnectionClosed), closed normally
\* (the iterator ends, no exception), or another exception out of the iterator
Endings == {"ConnectionClosed", "closed_ok", "Exception"}

\* message_handler when the receive loop ends
message_handler_ends(ending) ==
    /\ Receiving
    /\ IF ending = "ConnectionClosed"
       THEN /\ websocket' = [websocket EXCEPT !.state = "closed"]
            /\ is_connected' = FALSE
            /\ boot_notification_accepted' = FALSE
            /\ handle_connection_failure
       ELSE IF ending = "Exception"
       THEN /\ is_connected' = FALSE
            /\ handle_connection_failure
            /\ UNCHANGED <<websocket, boot_notification_accepted>>
       ELSE /\ websocket' = [websocket EXCEPT !.state = "closed"]
            /\ connect_pc' = "returned"
            /\ UNCHANGED <<is_connected, boot_notification_accepted, reconnect_attempts,
                           sleep_left>>
    /\ UNCHANGED <<attempt, failed_cycles, boot_tasks, loops>>
    /\ UNCHANGED correlatorVars
    /\ UNCHANGED <<profileVars, taskVars, dispatchVars, telemetryVars>>

\* the connection closed from this side: websocket.close() ends the iterator of
\* message_handler normally, and message_handler returns
closed_locally ==
    /\ is_connected' = FALSE
    /\ websocket' = IF websocket = NoSocket THEN websocket
                    ELSE [websocket EXCEPT !.state = "closed"]
    /\ connect_pc' = IF Receiving THEN "returned" ELSE connect_pc
    /\ UNCHANGED <<reconnect_attempts, sleep_left, attempt, failed_cycles>>
    /\ UNCHANGED <<correlatorVars, bootVars>>
    /\ UNCHANGED <<profileVars, taskVars, telemetryVars>>

\* disconnect(), which the GUI calls while is_connected
disconnect == is_connected /\ closed_locally /\ UNCHANGED dispatchVars

\* the payload of a Result envelope: its status and, in the answer to
\* GetCompositeSchedule, the connector and the schedule; an absent key is None
NoSchedule == [duration |-> None, chargingRateUnit |-> "None", chargingSchedulePeriod |-> <<>>]
Payload(status) == [status |-> status, connectorId |-> None, chargingSchedule |-> NoSchedule]
NoPayload == Payload("None")

\* a Result [3, id, payload] or Error [4, id, error_code, ...] envelope of the
\* simulator
Response(kind, id, code, payload) == [kind |-> kind, id |-> id, code |-> code, payload |-> payload]

\* send_call_result(message_id, payload): `if not self.is_connected or not
\* self.websocket: return`, else [3, message_id, payload] is sent
send_call_result(sent, id, payload) ==
    IF is_connected /\ websocket # NoSocket
    THEN Append(sent, Response("Result", id, "None", payload))
    ELSE sent

\* mutant: the error is logged only
send_call_error_logging_only(sent, id, error_code) == sent

\* send_call_error(message_id, error_code, ...): the same guard, then
\* [4, message_id, error_code, description, {}]
send_call_error(sent, id, error_code) ==
    IF is_connected /\ websocket # NoSocket
    THEN Append(sent, Response("Error", id, error_code, NoPayload))
    ELSE sent

\* the ids the central system gives its requests
FrameIds == {101, 102}

\* handle_call unpacks a [2, id, action, payload] frame
received(id, action) == Frame(1 - frame.turn, "Call", id, action)

\* MessageHandlers.handle_reset on a Reset request: the response, two seconds
\* of sleep, then is_connected = False and websocket.close()
handle_reset(id) ==
    /\ Receiving
    /\ frame' = received(id, "Reset")
    /\ responses' = send_call_result(<<>>, id, Payload("Accepted"))
    /\ closed_locally

\* the seconds until the first timer is due: a wait_for or the sleep of
\* handle_connection_failure
Remaining == {CallTimeout - calls[k].waited : k \in {j \in DOMAIN calls : Suspended(calls[j])}}
                \cup (IF connect_pc = "sleeping" THEN {sleep_left} ELSE {})

\* asyncio time passes until the first timer is due
Elapse ==
    /\ Remaining # {}
    /\ LET seconds == CHOOSE r \in Remaining : \A q \in Remaining : r <= q
       IN  /\ seconds > 0
           /\ calls' = [k \in DOMAIN calls |->
                           IF Suspended(calls[k])
                           THEN [calls[k] EXCEPT !.waited = @ + seconds]
                           ELSE calls[k]]
           /\ sleep_left' = IF connect_pc = "sleeping" THEN sleep_left - seconds
                            ELSE sleep_left
    /\ UNCHANGED <<message_id, pending_requests, bootVars>>
    /\ UNCHANGED <<is_connected, websocket, reconnect_attempts, connect_pc, attempt,
                   failed_cycles>>
    /\ UNCHANGED <<profileVars, taskVars, dispatchVars, telemetryVars>>

---------------------------------------------------------------------------
(* EVChargerSimulator.heartbeat_loop over disconnects and reconnects
   (specification SpecHeartbeat) *)

MaxHeartbeatCalls == 3      \* send_call invocations in one behaviour of SpecHeartbeat

\* the while condition of heartbeat_loop
heartbeat_continues == is_connected /\ boot_notification_accepted

\* heartbeat_loop after its sleep: `if self.is_connected` it calls
\* send_call("Heartbeat"), whose exception breaks the loop; otherwise it goes
\* back to the while condition
heartbeat_loop_wakes(i) ==
    /\ heartbeat_loops[i].pc = "sleeping"
    /\ IF is_connected /\ heartbeat_continues
       THEN IF websocket # NoSocket
            THEN /\ message_id < MaxHeartbeatCalls
                 /\ send_call("Heartbeat")
                 /\ heartbeat_loops' = [heartbeat_loops EXCEPT ![i] =
                        IF websocket.state = "open"
                        THEN Loop("awaiting", heartbeat_interval, None, Len(calls) + 1)
                        ELSE NoLoop]
            ELSE /\ heartbeat_loops' = [heartbeat_loops EXCEPT ![i] = NoLoop]
                 /\ UNCHANGED correlatorVars
       ELSE /\ heartbeat_loops' = [heartbeat_loops EXCEPT ![i] =
                  IF heartbeat_continues THEN @ ELSE NoLoop]
            /\ UNCHANGED correlatorVars
    /\ UNCHANGED <<connectionVars, bootVars>>
    /\ UNCHANGED <<profileVars, taskVars, dispatchVars, sample_interval, meter_loops,
                   grid_loop, samples, earlier_loops>>

\* heartbeat_loop when its send_call has returned or raised: a result goes back
\* to the while condition, an exception breaks
heartbeat_loop_resumes(i) ==
    /\ heartbeat_loops[i].pc = "awaiting"
    /\ calls[heartbeat_loops[i].call].outcome # "none"
    /\ heartbeat_loops' = [heartbeat_loops EXCEPT ![i] =
           IF calls[heartbeat_loops[i].call].outcome = "result" /\ heartbeat_continues
           THEN Loop("sleeping", heartbeat_interval, None, 0)
           ELSE NoLoop]
    /\ UNCHANGED <<sessionVars, profileVars, taskVars, dispatchVars, sample_interval,
                   meter_loops, grid_loop, samples, earlier_loops>>

HeartbeatEnvelopes ==
    [kind : {"Result"}, id : 1 .. MaxHeartbeatCalls, payload : {"Accepted"}]

\* the central system answers a call it received on the connection in use
HeartbeatAnswered ==
    \E e \in HeartbeatEnvelopes :
        /\ \E k \in DOMAIN calls : calls[k].id = e.id /\ calls[k].connection = websocket.number
        /\ handle_message(e)

HeartbeatLoopWakes == \E i \in DOMAIN heartbeat_loops : heartbeat_loop_wakes(i)

HeartbeatLoopResumes == \E i \in DOMAIN heartbeat_loops : heartbeat_loop_resumes(i)

\* asyncio.gather starts send_boot_notification in the pass of the event loop in
\* which message_handler first suspends, so that the receive loop ends only
\* after send_boot_notification has reached its send_call
HeartbeatConnectionEnds ==
    /\ boot_tasks = 0
    /\ \E ending \in {"ConnectionClosed", "Exception"} : message_handler_ends(ending)

NextHeartbeat ==
    \/ connect \/ try_method("connected") \/ reconnect \/ HeartbeatConnectionEnds \/ Elapse
    \/ send_boot_notification \/ HeartbeatAnswered
    \/ HeartbeatLoopWakes \/ HeartbeatLoopResumes


---------------------------------------------------------------------------
(* The calls of the simulator against a central system that accepts the
   connection and answers as it likes (specification SpecSession) *)

TaskActions == {"Heartbeat"}

\* the Result and Error envelopes a central system may send: for a call made,
\* or for an id never issued
Envelopes ==
    [kind : {"Result"}, id : 1 .. (MaxCalls + 1), payload : {"Accepted", "Rejected"}]
        \cup [kind : {"Error"}, id : 1 .. (MaxCalls + 1), payload : {"InternalError"}]

Connect == connect

Accepts == try_method("connected")

Reconnect == reconnect

MessageHandlerEnds == \E ending \in Endings : message_handler_ends(ending)

Disconnect == disconnect

Reset == \E id \in FrameIds : handle_reset(id)

CallFromTask == \E action \in TaskActions : call_from_task(action)

SendBootNotification == send_boot_notification

HandleMessage == \E e \in Envelopes : handle_message(e)

WaitForExpires == \E k \in 1 .. MaxCalls : wait_for_expires(k)

SendCallTimesOut == \E k \in 1 .. MaxCalls : send_call_times_out(k)

InitSessionSpec ==
    /\ InitManager /\ InitSimulator /\ InitHandler /\ InitPeriod
    /\ allowed_units = DefaultUnits

NextSession ==
    \/ Connect \/ Accepts \/ Reconnect \/ MessageHandlerEnds \/ Disconnect \/ Reset
    \/ CallFromTask \/ SendBootNotification \/ HandleMessage
    \/ WaitForExpires \/ SendCallTimesOut \/ Elapse

SpecSession == InitSessionSpec /\ [][NextSession]_vars

\* the heartbeat_loop tasks over disconnects and reconnects
SpecHeartbeat == InitSessionSpec /\ [][NextHeartbeat]_vars

\* the same simulator against a central system that accepts the connection
\* and never answers a call
NextUnanswered ==
    \/ Connect \/ Accepts \/ Reconnect \/ MessageHandlerEnds \/ Disconnect \/ Reset
    \/ CallFromTask \/ SendBootNotification
    \/ WaitForExpires \/ SendCallTimesOut \/ Elapse

\* the event loop runs: timers fall due, due timers fire, resumed callers run
SpecSessionLive ==
    /\ InitSessionSpec /\ [][NextUnanswered]_vars
    /\ WF_vars(Elapse) /\ WF_vars(WaitForExpires) /\ WF_vars(SendCallTimesOut)
    /\ WF_vars(Reconnect)

---------------------------------------------------------------------------
(* The connect cycles against every central system, the only calls being
   those of the boot sequence (specification SpecConnect) *)

\* the answers to BootNotification
BootEnvelopes == [kind : {"Result"}, id : 1 .. MaxCalls, payload : {"Accepted", "Rejected"}]

TryMethod == \E result \in StrategyResults : try_method(result)

BootAnswered == \E e \in BootEnvelopes : handle_message(e)

NextConnect ==
    \/ Connect \/ TryMethod \/ Reconnect \/ MessageHandlerEnds \/ Disconnect \/ Reset
    \/ SendBootNotification \/ BootAnswered
    \/ WaitForExpires \/ SendCallTimesOut \/ Elapse

SpecConnect == InitSessionSpec /\ [][NextConnect]_vars

---------------------------------------------------------------------------
(* MessageHandlers (message_handlers.py) and the dispatch of handle_call: the
   requests of the central system (specification SpecDispatch) *)

\* MessageHandlers.get_handlers
Handlers ==
    {"Reset", "RemoteStartTransaction", "RemoteStopTransaction", "GetConfiguration",
     "ChangeConfiguration", "ClearCache", "TriggerMessage", "SetChargingProfile",
     "ClearChargingProfile", "GetCompositeSchedule"}

\* handle_message on a frame that json.loads rejects, that handle_call cannot
\* unpack into four elements, or whose first element is none of 2, 3 and 4:
\* the exception, if there is one, is logged, and the receive loop reads on
Malformed == {"invalid_json", "wrong_length", "unknown_type"}

handle_message_malformed(kind) ==
    /\ Receiving
    /\ frame' = Frame(1 - frame.turn, kind, None, "None")
    /\ responses' = <<>>
    /\ UNCHANGED <<profileVars, taskVars, sessionVars, telemetryVars>>

\* handle_call on an action without a handler: `handlers.get(action)` is None
\* and send_call_error(message_id, "NotImplemented", ...) is awaited
handle_call_not_implemented(id, action) ==
    /\ Receiving
    /\ action \notin Handlers
    /\ frame' = received(id, action)
    /\ responses' = send_call_error(<<>>, id, "NotImplemented")
    /\ UNCHANGED <<profileVars, taskVars, sessionVars, telemetryVars>>

\* MessageHandlers.handle_clear_cache
handle_clear_cache(id) ==
    /\ Receiving
    /\ frame' = received(id, "ClearCache")
    /\ responses' = send_call_result(<<>>, id, Payload("Accepted"))
    /\ UNCHANGED <<profileVars, taskVars, sessionVars, telemetryVars>>

\* MessageHandlers.handle_set_charging_profile: the status of the manager is
\* the status of the response
message_handlers_set_charging_profile(id, c, p) ==
    /\ Receiving
    /\ frame' = received(id, "SetChargingProfile")
    /\ handle_set_charging_profile(c, p)
    /\ responses' = send_call_result(<<>>, id, Payload(last'.status))

\* MessageHandlers.handle_clear_charging_profile: the same; the KeyError of
\* the manager leaves the handler before send_call_result and is logged by
\* handle_message
message_handlers_clear_charging_profile(id, request) ==
    /\ Receiving
    /\ frame' = received(id, "ClearChargingProfile")
    /\ handle_clear_charging_profile(request)
    /\ responses' = IF last'.status = "KeyError" THEN <<>>
                    ELSE send_call_result(<<>>, id, Payload(last'.status))

\* mutant: the schedule of the last profile of the list
generate_composite_schedule_of_last(profiles, duration, unit) ==
    [duration |-> duration, chargingRateUnit |-> unit,
     chargingSchedulePeriod |-> profiles[Len(profiles)].chargingSchedulePeriod]

\* _generate_composite_schedule: the schedule of profiles[0], its duration cut
\* to the one requested, under the unit requested if there is one
generate_composite_schedule(profiles, duration, unit) ==
    LET highest_profile == profiles[1]
    IN  [duration |-> IF Truthy(highest_profile.duration)
                      THEN Min(duration, highest_profile.duration) ELSE duration,
         chargingRateUnit |-> IF unit = "None" THEN highest_profile.chargingRateUnit ELSE unit,
         chargingSchedulePeriod |-> highest_profile.chargingSchedulePeriod]

\* ChargingProfilesManager.handle_get_composite_schedule
handle_get_composite_schedule(c, duration, unit) ==
    IF c < 0 \/ c > NumberOfConnectors THEN Payload("Rejected")
    ELSE LET active == get_active_profiles(charging_profiles[c], now)
         IN  IF active = <<>> THEN Payload("Accepted")
             ELSE [status |-> "Accepted", connectorId |-> c,
                   chargingSchedule |-> generate_composite_schedule(active, duration, unit)]

\* MessageHandlers.handle_get_composite_schedule; an absent connectorId is 0
\* and an absent duration 86400
message_handlers_get_composite_schedule(id, c, duration, unit) ==
    /\ Receiving
    /\ frame' = [received(id, "GetCompositeSchedule") EXCEPT
                    !.connectorId = c, !.duration = duration, !.chargingRateUnit = unit]
    /\ responses' = send_call_result(<<>>, id, handle_get_composite_schedule(c, duration, unit))
    /\ UNCHANGED <<profileVars, taskVars, sessionVars, telemetryVars>>

\* the requests drawn
UnknownActions == {"DataTransfer"}

DispatchProfiles ==
    { [Base(1, 0, "TxDefaultProfile", "W", <<Period(0, 4600, None)>>) EXCEPT !.duration = 3600],
      [Base(2, 1, "TxDefaultProfile", "A", <<Period(0, 16, None), Period(60, 10, None)>>)
          EXCEPT !.validTo = 1],
      Base(3, 1, "TxDefaultProfile", "W", <<Period(0, 11500, None)>>) }

DispatchConnectors == {1, NumberOfConnectors + 1}

DispatchClearRequests ==
    { ClearRequest(1, None, "None", None),
      ClearRequest(2, NumberOfConnectors + 1, "None", None) }

RequestedDurations == {1800, SecondsPerDay}

MalformedFrame == \E kind \in Malformed : handle_message_malformed(kind)

UnknownAction ==
    \E id \in FrameIds, action \in UnknownActions : handle_call_not_implemented(id, action)

ClearCache == \E id \in FrameIds : handle_clear_cache(id)

SetChargingProfileReq ==
    \E id \in FrameIds, c \in DispatchConnectors, p \in DispatchProfiles :
        /\ next_object < MaxSets
        /\ message_handlers_set_charging_profile(id, c, p)

ClearChargingProfileReq ==
    \E id \in FrameIds, request \in DispatchClearRequests :
        message_handlers_clear_charging_profile(id, request)

GetCompositeScheduleReq ==
    \E id \in FrameIds, c \in DispatchConnectors, duration \in RequestedDurations,
       unit \in {"None", "W"} :
        message_handlers_get_composite_schedule(id, c, duration, unit)

\* MessageHandlers.handle_change_configuration for the key
\* MeterValueSampleInterval, which is neither read-only nor reboot-required:
\* the value is stored and the status is Accepted
handle_change_configuration(id, value) ==
    /\ Receiving
    /\ frame' = received(id, "ChangeConfiguration")
    /\ sample_interval' = value
    /\ responses' = send_call_result(<<>>, id, Payload("Accepted"))
    /\ UNCHANGED <<profileVars, taskVars, sessionVars, meter_loops, grid_loop, samples,
                   heartbeat_loops, earlier_loops>>

NextDispatch ==
    \/ Connect \/ Accepts \/ SendBootNotification \/ Reset \/ Tick
    \/ MalformedFrame \/ UnknownAction \/ ClearCache
    \/ SetChargingProfileReq \/ ClearChargingProfileReq \/ GetCompositeScheduleReq

SpecDispatch == InitSessionSpec /\ [][NextDispatch]_vars

---------------------------------------------------------------------------
(* The store read by get_current_limit and handle_get_composite_schedule
   (specification SpecRead) *)

\* mutant: the stored dictionary is handed out
hands_out_stored_with_known_key(c) == c \in DOMAIN current_limits

\* whether get_current_limit hands out the stored dictionary itself: never, it
\* returns `self.current_limits[connector_id].copy()`, a dictionary literal for
\* an unknown key
hands_out_stored(c) == FALSE

\* a caller (MeterValuesHandler._generate_sampled_values, the GUI) calls
\* get_current_limit(c) and keeps what it returns
caller_gets_current_limit(c) ==
    /\ limit_view' = View(c, get_current_limit(c), hands_out_stored(c))
    /\ UNCHANGED <<profileVars, sessionVars, dispatchVars, telemetryVars>>
    /\ UNCHANGED <<inbox, handler, starts>>

\* the caller assigns to the keys of the dictionary it holds; the stored
\* dictionary changes with it when it is the same object
caller_writes(value) ==
    /\ limit_view.connector # None
    /\ ~limit_view.written
    /\ limit_view' = [limit_view EXCEPT !.value = value, !.written = TRUE]
    /\ current_limits' = IF limit_view.stored
                          THEN [current_limits EXCEPT ![limit_view.connector] = value]
                          ELSE current_limits
    /\ UNCHANGED <<charging_profiles, limit_source, next_object, submitted, last>>
    /\ UNCHANGED <<handlerVars, periodVars, simulatorVars, allowed_units, now>>
    /\ UNCHANGED <<sessionVars, dispatchVars, telemetryVars>>
    /\ UNCHANGED <<inbox, handler, starts>>

\* ChargingProfilesManager.handle_get_composite_schedule called on the store:
\* `last` keeps the call and the status of what it returned
composite_schedule_called(c, duration, unit) ==
    /\ last' = Served("schedule", c, NoProfile, NoRequest,
                      handle_get_composite_schedule(c, duration, unit).status)
    /\ UNCHANGED <<charging_profiles, current_limits, limit_source, next_object, submitted>>
    /\ UNCHANGED <<handlerVars, periodVars, simulatorVars, allowed_units, now>>
    /\ UNCHANGED <<sessionVars, dispatchVars, telemetryVars, taskVars>>

\* the requests drawn
ReadProfiles ==
    { Base(1, 0, "TxDefaultProfile", "W", <<Period(0, 4600, None)>>),
      Base(2, 1, "TxDefaultProfile", "A", <<Period(0, 10, None)>>) }

ReadConnectors == {0, 1, NumberOfConnectors + 1}

WrittenLimits == {[power |-> 0, current |-> 0]}

ReadSetChargingProfile ==
    \E c \in {0, 1}, p \in ReadProfiles :
        /\ next_object < MaxSets
        /\ handle_set_charging_profile(c, p)
        /\ UNCHANGED dispatchVars

ReadClearChargingProfile ==
    handle_clear_charging_profile(ClearRequest(1, None, "None", None)) /\ UNCHANGED dispatchVars

GetCurrentLimit == \E c \in ReadConnectors : caller_gets_current_limit(c)

CallerWrites == \E value \in WrittenLimits : caller_writes(value)

GetCompositeSchedule ==
    \E c \in ReadConnectors : composite_schedule_called(c, SecondsPerDay, "None")

NextRead ==
    \/ ReadSetChargingProfile \/ ReadClearChargingProfile \/ Tick
    \/ GetCurrentLimit \/ CallerWrites \/ GetCompositeSchedule

SpecRead == InitSessionSpec /\ [][NextRead]_vars

---------------------------------------------------------------------------
(* message_handler reading the socket one frame at a time, the handlers of
   SetChargingProfile and ClearChargingProfile taken statement by statement
   (specification SpecSerial) *)

MaxFrames == 3              \* frames the central system sends in one behaviour

\* the central system sends a frame; it waits in the socket until
\* message_handler comes to read it
peer_sends(f) ==
    /\ Receiving
    /\ Len(inbox.frames) < MaxFrames
    /\ inbox' = [inbox EXCEPT !.frames = Append(@, [f EXCEPT !.overlapped = handler.pc # "idle"])]
    /\ UNCHANGED <<profileVars, sessionVars, dispatchVars, telemetryVars>>
    /\ UNCHANGED <<limit_view, handler, starts>>

\* mutant: the handler is not awaited
reads_on_at_once == TRUE

\* `async for message in self.websocket: await self.handle_message(message)`:
\* the next frame is read when the handler of the last one has returned
reads_on == handler.pc = "idle"

next_frame == inbox.frames[inbox.read + 1]

\* message_handler takes the next frame out of the socket
message_handler_reads(kind, action) ==
    /\ Receiving
    /\ reads_on
    /\ inbox.read < Len(inbox.frames)
    /\ next_frame.kind = kind
    /\ next_frame.action = action
    /\ inbox' = [inbox EXCEPT !.read = @ + 1]

\* MessageHandlers.handle_set_charging_profile, from the frame to the checks
\* of the manager: the ChargingProfile object is constructed for a connector id
\* in range, and the status decided
set_charging_profile_read ==
    LET f == next_frame
        status == set_status(f.connector, f.profile, connector_transactions, allowed_units)
        known == f.connector \in Connectors
    IN  /\ message_handler_reads("Call", "SetChargingProfile")
        /\ frame' = received(f.id, f.action)
        /\ responses' = <<>>
        /\ handler' = [Handler(IF status = "Accepted" THEN "evict" ELSE "respond",
                               f.id, f.action, f.connector)
                          EXCEPT !.profile = f.profile, !.status = status,
                                 !.object = next_object + 1]
        /\ next_object' = IF known THEN next_object + 1 ELSE next_object
        /\ submitted' = IF known THEN [submitted EXCEPT ![f.connector] = @ \cup {Pair(f.profile)}]
                        ELSE submitted
        /\ last' = Served("set", f.connector, f.profile, NoRequest, status)
        /\ UNCHANGED <<charging_profiles, current_limits, limit_source>>
        /\ UNCHANGED <<handlerVars, periodVars, simulatorVars, allowed_units, now>>
        /\ UNCHANGED <<sessionVars, telemetryVars, limit_view, starts>>

\* self._remove_conflicting_profiles(connector_id, profile)
set_charging_profile_evicts ==
    /\ handler.pc = "evict"
    /\ charging_profiles' = [charging_profiles EXCEPT
          ![handler.connector] = remove_conflicting_profiles(@, handler.profile)]
    /\ handler' = [handler EXCEPT !.pc = "insert"]
    /\ UNCHANGED <<current_limits, limit_source, next_object, submitted, last>>
    /\ UNCHANGED <<handlerVars, periodVars, simulatorVars, allowed_units, now>>
    /\ UNCHANGED <<sessionVars, dispatchVars, telemetryVars, limit_view, inbox, starts>>

\* self.charging_profiles[connector_id].append(profile) and the sort
set_charging_profile_inserts ==
    /\ handler.pc = "insert"
    /\ charging_profiles' = [charging_profiles EXCEPT
          ![handler.connector] =
              sort_by_stack_level(Append(@, Stored(handler.profile, handler.object)))]
    /\ handler' = [handler EXCEPT !.pc = "recompute"]
    /\ UNCHANGED <<current_limits, limit_source, next_object, submitted, last>>
    /\ UNCHANGED <<handlerVars, periodVars, simulatorVars, allowed_units, now>>
    /\ UNCHANGED <<sessionVars, dispatchVars, telemetryVars, limit_view, inbox, starts>>

\* self._update_current_limits(connector_id)
set_charging_profile_recomputes ==
    LET c == handler.connector
        limits == update_current_limits(charging_profiles[c], current_limits[c], now)
    IN  /\ handler.pc = "recompute"
        /\ current_limits' = [current_limits EXCEPT ![c] = limits]
        /\ limit_source' = [limit_source EXCEPT
              ![c] = update_limit_source(charging_profiles[c], @, now)]
        /\ meter_values' = [meter_values EXCEPT
              ![c] = update_meter(charging_profiles[c], @, limits, now)]
        /\ handler' = [handler EXCEPT !.pc = "respond"]
        /\ UNCHANGED <<charging_profiles, next_object, submitted, last>>
        /\ UNCHANGED <<handlerVars, periodVars, connector_transactions, connector_status,
                       allowed_units, now>>
        /\ UNCHANGED <<sessionVars, dispatchVars, telemetryVars, limit_view, inbox, starts>>

\* the connector the loop of handle_clear_charging_profile goes to after c;
\* None after the last
next_to_check(request, c) ==
    LET ahead == {d \in connectors_to_check(request) : d > c}
    IN  IF ahead = {} THEN None ELSE CHOOSE d \in ahead : \A e \in ahead : d <= e

\* MessageHandlers.handle_clear_charging_profile, from the frame to the loop
\* of the manager over the connectors to check
clear_charging_profile_read ==
    LET f == next_frame
    IN  /\ message_handler_reads("Call", "ClearChargingProfile")
        /\ connectors_to_check(f.request) \subseteq Connectors
        /\ frame' = received(f.id, f.action)
        /\ responses' = <<>>
        /\ handler' = [Handler("clear", f.id, f.action, next_to_check(f.request, -1))
                          EXCEPT !.request = f.request, !.status = "Unknown"]
        /\ UNCHANGED <<profileVars, sessionVars, telemetryVars, limit_view, starts>>

\* one turn of that loop: the matching profiles of the connector are removed
\* and, if there were any, its limits updated
clear_charging_profile_turn ==
    LET c == handler.connector
        kept == clear_store(charging_profiles[c], handler.request)
        cleared == kept # charging_profiles[c]
        limits == update_current_limits(kept, current_limits[c], now)
        next == next_to_check(handler.request, c)
        status == IF cleared THEN "Accepted" ELSE handler.status
    IN  /\ handler.pc = "clear"
        /\ charging_profiles' = [charging_profiles EXCEPT ![c] = kept]
        /\ IF cleared
           THEN /\ current_limits' = [current_limits EXCEPT ![c] = limits]
                /\ limit_source' = [limit_source EXCEPT ![c] = update_limit_source(kept, @, now)]
                /\ meter_values' = [meter_values EXCEPT ![c] = update_meter(kept, @, limits, now)]
           ELSE UNCHANGED <<current_limits, limit_source, meter_values>>
        /\ handler' = IF next = None
                      THEN [handler EXCEPT !.pc = "respond", !.status = status]
                      ELSE [handler EXCEPT !.connector = next, !.status = status]
        /\ last' = IF next = None
                   THEN Served("clear", None, NoProfile, handler.request, status)
                   ELSE last
        /\ UNCHANGED <<next_object, submitted>>
        /\ UNCHANGED <<handlerVars, periodVars, connector_transactions, connector_status,
                       allowed_units, now>>
        /\ UNCHANGED <<sessionVars, dispatchVars, telemetryVars, limit_view, inbox, starts>>

\* `await self.simulator.send_call_result(message_id, {"status": status})`,
\* after which the handler returns
handler_responds ==
    /\ handler.pc = "respond"
    /\ responses' = send_call_result(responses, handler.id, Payload(handler.status))
    /\ handler' = NoHandler
    /\ UNCHANGED frame
    /\ UNCHANGED <<profileVars, sessionVars, telemetryVars, limit_view, inbox, starts>>

\* the store and the limits after handle_set_charging_profile(c, p) on the
\* store `st`, as one call
after_set(st, c, p) ==
    LET status == set_status(c, p, connector_transactions, allowed_units)
        list == set_store(st.profiles[c], p, st.objects + 1, status)
    IN  IF c \notin Connectors THEN st
        ELSE [profiles |-> [st.profiles EXCEPT ![c] = list],
              limits |-> IF status = "Accepted"
                         THEN [st.limits EXCEPT ![c] = update_current_limits(list, @, now)]
                         ELSE st.limits,
              objects |-> st.objects + 1]

\* the same after handle_clear_charging_profile(request), as one call
after_clear(st, request) ==
    LET kept(c) == IF c \in connectors_to_check(request)
                   THEN clear_store(st.profiles[c], request) ELSE st.profiles[c]
    IN  [profiles |-> [c \in Connectors |-> kept(c)],
         limits |-> [c \in Connectors |->
                        IF kept(c) # st.profiles[c]
                        THEN update_current_limits(kept(c), st.limits[c], now)
                        ELSE st.limits[c]],
         objects |-> st.objects]

RECURSIVE one_after_another(_, _)
\* the first n of the requests, served one after another on the store as
\* constructed
one_after_another(frames, n) ==
    IF n = 0
    THEN [profiles |-> [c \in Connectors |-> <<>>],
          limits |-> [c \in Connectors |-> NoLimit],
          objects |-> 0]
    ELSE LET st == one_after_another(frames, n - 1)
             f == frames[n]
         IN  IF f.action = "SetChargingProfile" THEN after_set(st, f.connector, f.profile)
             ELSE IF f.action = "ClearChargingProfile" THEN after_clear(st, f.request)
             ELSE st

\* the requests drawn
SerialProfiles ==
    { Base(1, 0, "TxDefaultProfile", "W", <<Period(0, 4600, None)>>),
      Base(2, 0, "TxDefaultProfile", "A", <<Period(0, 10, None)>>),
      Base(2, 1, "TxDefaultProfile", "W", <<>>) }

SerialClearRequests ==
    { ClearRequest(1, None, "None", None),
      ClearRequest(None, 1, "TxDefaultProfile", 0) }

SerialFrames ==
    { [Inbound("Call", 101, "SetChargingProfile") EXCEPT !.connector = 1, !.profile = p] :
          p \in SerialProfiles }
    \cup { [Inbound("Call", 102, "ClearChargingProfile") EXCEPT !.request = r] :
              r \in SerialClearRequests }

PeerSendsProfileRequest == \E f \in SerialFrames : peer_sends(f)

SetChargingProfileRead == set_charging_profile_read

SetChargingProfileEvicts == set_charging_profile_evicts

SetChargingProfileInserts == set_charging_profile_inserts

SetChargingProfileRecomputes == set_charging_profile_recomputes

ClearChargingProfileRead == clear_charging_profile_read

ClearChargingProfileTurn == clear_charging_profile_turn

HandlerResponds == handler_responds

NextSerial ==
    \/ Connect \/ Accepts \/ PeerSendsProfileRequest
    \/ SetChargingProfileRead \/ SetChargingProfileEvicts \/ SetChargingProfileInserts
    \/ SetChargingProfileRecomputes \/ ClearChargingProfileRead \/ ClearChargingProfileTurn
    \/ HandlerResponds

SpecSerial == InitSessionSpec /\ [][NextSerial]_vars

---------------------------------------------------------------------------
(* EVChargerSimulator.start_transaction taken await by await, called by the
   GUI (specification SpecStart) or awaited by the handler of
   RemoteStartTransaction (specification SpecRemote) *)

MaxStarts == 2              \* start_transaction invocations in one behaviour
MaxStartCalls == 8          \* send_call invocations in one behaviour of these

\* a start_transaction invocation: its connector, where it stands, the call it
\* awaits, and the transaction_id it read from the StartTransaction response
Start(c, pc, call) == [connector |-> c, pc |-> pc, call |-> call, transaction_id |-> None]

\* start_transaction from its call to its first await: the two checks, then
\* send_status_notification(PREPARING) up to its send_call; connector_status is
\* not written before that call has returned
start_transaction_begins(c) ==
    /\ Receiving
    /\ Len(starts) < MaxStarts
    /\ IF c \in PhysicalConnectors /\ connector_status[c] = "Available"
       THEN /\ message_id < MaxStartCalls
            /\ send_call("StatusNotification")
            /\ starts' = Append(starts, Start(c, "preparing", Len(calls) + 1))
       ELSE /\ starts' = Append(starts, Start(c, "returned", 0))
            /\ UNCHANGED correlatorVars
    /\ UNCHANGED connector_status

\* the invocation calls send_call and awaits it at `pc`
start_awaits(i, action, pc) ==
    /\ message_id < MaxStartCalls
    /\ send_call(action)
    /\ starts' = [starts EXCEPT ![i].pc = pc, ![i].call = Len(calls) + 1]

\* send_status_notification after its send_call: the status is written when
\* the call returned; an exception is logged
status_after(i, status) ==
    IF calls[starts[i].call].outcome = "result"
    THEN [connector_status EXCEPT ![starts[i].connector] = status]
    ELSE connector_status

\* start_transaction resumed by the end of the call it awaits.
\* After StatusNotification(Preparing): Authorize, outside any try.
\* After Authorize: an exception leaves start_transaction; a status other than
\* Accepted sends StatusNotification(Available); Accepted sends StartTransaction.
\* After StartTransaction: the transactionId of the response (the central
\* system numbers the transaction after the request) is recorded and
\* StatusNotification(Charging) sent; an exception sends
\* StatusNotification(Available).
\* After StatusNotification(Charging): the meter loop task is created.
start_transaction_resumes(i) ==
    LET s == starts[i]
        c == s.connector
        call == calls[s.call]
    IN  /\ Receiving
        /\ s.pc \in {"preparing", "authorizing", "starting", "charging", "restoring"}
        /\ call.outcome # "none"
        /\ IF s.pc = "preparing"
           THEN /\ connector_status' = status_after(i, "Preparing")
                /\ start_awaits(i, "Authorize", "authorizing")
                /\ UNCHANGED <<connector_transactions, meter_values, meter_loops,
                               earlier_loops>>
           ELSE IF s.pc = "authorizing"
           THEN /\ IF call.outcome # "result"
                   THEN /\ starts' = [starts EXCEPT ![i].pc = "raised"]
                        /\ UNCHANGED correlatorVars
                   ELSE IF ~accepted(call.payload)
                   THEN start_awaits(i, "StatusNotification", "restoring")
                   ELSE start_awaits(i, "StartTransaction", "starting")
                /\ UNCHANGED <<connector_status, connector_transactions, meter_values,
                               meter_loops, earlier_loops>>
           ELSE IF s.pc = "starting"
           THEN /\ IF call.outcome = "result"
                   THEN /\ connector_transactions' =
                              [connector_transactions EXCEPT ![c] = call.id]
                        /\ message_id < MaxStartCalls
                        /\ send_call("StatusNotification")
                        /\ starts' = [starts EXCEPT ![i].pc = "charging",
                                                    ![i].call = Len(calls) + 1,
                                                    ![i].transaction_id = call.id]
                   ELSE /\ start_awaits(i, "StatusNotification", "restoring")
                        /\ UNCHANGED connector_transactions
                /\ UNCHANGED <<connector_status, meter_values, meter_loops, earlier_loops>>
           ELSE IF s.pc = "charging"
           THEN /\ connector_status' = status_after(i, "Charging")
                /\ meter_loop_starts(c, s.transaction_id)
                /\ starts' = [starts EXCEPT ![i].pc = "done"]
                /\ UNCHANGED <<correlatorVars, connector_transactions>>
           ELSE /\ connector_status' = status_after(i, "Available")
                /\ starts' = [starts EXCEPT ![i].pc = "done"]
                /\ UNCHANGED <<correlatorVars, connector_transactions, meter_values,
                               meter_loops, earlier_loops>>
        /\ UNCHANGED <<managerVars, handlerVars, periodVars, allowed_units, now>>
        /\ UNCHANGED <<connectionVars, bootVars, dispatchVars>>
        /\ UNCHANGED <<sample_interval, grid_loop, samples, heartbeat_loops>>
        /\ UNCHANGED <<limit_view, inbox, handler>>

\* the GUI schedules start_transaction on the event loop
\* (asyncio.run_coroutine_threadsafe), whatever else is under way
gui_start_transaction(c) ==
    /\ start_transaction_begins(c)
    /\ UNCHANGED <<managerVars, handlerVars, periodVars, allowed_units, now>>
    /\ UNCHANGED <<connector_transactions, meter_values>>
    /\ UNCHANGED <<connectionVars, bootVars, dispatchVars, telemetryVars>>
    /\ UNCHANGED <<limit_view, inbox, handler>>

\* Authorize is answered Accepted or Invalid, the other calls Accepted
StartEnvelopes ==
    [kind : {"Result"}, id : 1 .. MaxStartCalls, payload : {"Accepted", "Invalid"}]

StartAnswered ==
    \E e \in StartEnvelopes :
        /\ \E k \in DOMAIN calls :
              /\ calls[k].id = e.id
              /\ e.payload = "Accepted" \/ calls[k].action = "Authorize"
        /\ handle_message(e)

GuiStartTransaction == \E c \in {1} : gui_start_transaction(c)

StartTransactionResumes == \E i \in DOMAIN starts : start_transaction_resumes(i)

NextStart ==
    \/ Connect \/ Accepts \/ GuiStartTransaction \/ StartTransactionResumes \/ StartAnswered

SpecStart == InitSessionSpec /\ [][NextStart]_vars

\* handle_remote_start_transaction from the frame to the first await of the
\* start_transaction it awaits: the Accepted response, then start_transaction
\* up to its send_call
remote_start_read ==
    LET f == next_frame
    IN  /\ message_handler_reads("Call", "RemoteStartTransaction")
        /\ frame' = received(f.id, f.action)
        /\ responses' = send_call_result(<<>>, f.id, Payload("Accepted"))
        /\ start_transaction_begins(f.connector)
        /\ handler' = [Handler("start", f.id, f.action, f.connector)
                          EXCEPT !.start = Len(starts) + 1]
        /\ UNCHANGED <<managerVars, handlerVars, periodVars, allowed_units, now>>
        /\ UNCHANGED <<connector_transactions, meter_values>>
        /\ UNCHANGED <<connectionVars, bootVars, telemetryVars, limit_view>>

\* start_transaction has returned or raised: the handler ends, handle_message
\* logs the exception, and message_handler goes on to the next frame
remote_start_returns ==
    /\ handler.pc = "start"
    /\ starts[handler.start].pc \in {"returned", "raised", "done"}
    /\ handler' = NoHandler
    /\ UNCHANGED <<profileVars, sessionVars, dispatchVars, telemetryVars>>
    /\ UNCHANGED <<limit_view, inbox, starts>>

\* the central system has answered the k-th call
Answered(k) ==
    \E n \in DOMAIN inbox.frames :
        inbox.frames[n].kind = "Result" /\ inbox.frames[n].id = calls[k].id

\* the central system answers a call as soon as it has it
peer_answers(k) ==
    /\ Receiving
    /\ calls[k].connection = websocket.number
    /\ ~Answered(k)
    /\ inbox' = [inbox EXCEPT !.frames =
          Append(@, [Inbound("Result", calls[k].id, "None")
                        EXCEPT !.payload = "Accepted", !.overlapped = handler.pc # "idle"])]
    /\ UNCHANGED <<profileVars, sessionVars, dispatchVars, telemetryVars>>
    /\ UNCHANGED <<limit_view, handler, starts>>

\* message_handler reads a response: handle_call_result
response_read ==
    LET f == next_frame
    IN  /\ message_handler_reads("Result", "None")
        /\ resolve([kind |-> "Result", id |-> f.id, payload |-> f.payload])
        /\ UNCHANGED <<message_id, connectionVars, bootVars>>
        /\ UNCHANGED <<profileVars, dispatchVars, telemetryVars>>
        /\ UNCHANGED <<limit_view, handler, starts>>

RemoteFrames ==
    { [Inbound("Call", 101, "RemoteStartTransaction") EXCEPT !.connector = 1] }

PeerSendsRemoteStart == \E f \in RemoteFrames : peer_sends(f)

PeerAnswers == \E k \in DOMAIN calls : peer_answers(k)

\* time passes only once the central system has answered what it was sent
PromptElapse == (\A k \in DOMAIN calls : Answered(k)) /\ Elapse

StartWaitForExpires == \E k \in 1 .. MaxStartCalls : wait_for_expires(k)

StartSendCallTimesOut == \E k \in 1 .. MaxStartCalls : send_call_times_out(k)

NextRemote ==
    \/ Connect \/ Accepts \/ PeerSendsRemoteStart \/ PeerAnswers
    \/ remote_start_read \/ response_read \/ StartTransactionResumes \/ remote_start_returns
    \/ PromptElapse \/ StartWaitForExpires \/ StartSendCallTimesOut

SpecRemote == InitSessionSpec /\ [][NextRemote]_vars

---------------------------------------------------------------------------
(* MeterValuesHandler (meter_values.py): the telemetry loops, with
   MeterValuesSampledData set to Power.Active.Import, so that the energy
   register stays at 0 (specification SpecTelemetry) *)

MaxTelemetryCalls == 2      \* send_call invocations in one behaviour of the telemetry

\* _generate_sampled_values for Power.Active.Import: the stored power, cut to
\* the limit of the manager when there is one; without a limit the stored power
\* plus int(energy register) % 100, which is 0 here
sampled_power(c) ==
    LET base_power == IF meter_values[c].present THEN meter_values[c].power
                      ELSE DefaultMeterPower
        limit == get_current_limit(c).power
    IN  IF limit # None THEN Min(base_power, limit) ELSE base_power

\* `meter_vals["Power.Active.Import"] = actual_power` under a limit
meter_after_sampling(meter, c) ==
    IF get_current_limit(c).power # None /\ meter[c].present
    THEN [meter EXCEPT ![c].power = sampled_power(c)]
    ELSE meter

\* the while condition of send_meter_values_loop
still_charging(c, tx) == connector_transactions[c] = tx /\ connector_status[c] = "Charging"

\* `if new_interval != sample_interval: ... if sample_interval == 0: return`
interval_stops(loop) == sample_interval # loop.interval /\ sample_interval = 0

\* mutant: the change of the interval is not looked at
observes_zero_never(loop) == FALSE

\* the loop observes the interval changed to 0
observes_zero(loop) == interval_stops(loop)

\* send_meter_values_loop(c, tx) after its sleep: it leaves when the
\* transaction is over or the interval has become 0; otherwise it samples and
\* calls send_call("MeterValues"), which raises when not connected or when
\* websocket.send fails, and the exception ends the loop
meter_loop_wakes(c) ==
    LET loop == meter_loops[c]
        connected == is_connected /\ websocket # NoSocket
    IN  /\ loop.pc = "sleeping"
        /\ IF ~still_charging(c, loop.tx) \/ observes_zero(loop)
           THEN /\ meter_loops' = [meter_loops EXCEPT ![c] = NoLoop]
                /\ UNCHANGED <<meter_values, samples, correlatorVars>>
           ELSE /\ meter_values' = meter_after_sampling(meter_values, c)
                /\ IF connected
                   THEN /\ message_id < MaxTelemetryCalls
                        /\ send_call("MeterValues")
                        /\ samples' = IF websocket.state = "open"
                                       THEN [samples EXCEPT ![c] = sampled_power(c)]
                                       ELSE samples
                        /\ meter_loops' = [meter_loops EXCEPT ![c] =
                               IF websocket.state = "open"
                               THEN Loop("awaiting", sample_interval, loop.tx, Len(calls) + 1)
                               ELSE NoLoop]
                   ELSE /\ meter_loops' = [meter_loops EXCEPT ![c] = NoLoop]
                        /\ UNCHANGED <<samples, correlatorVars>>
        /\ UNCHANGED <<managerVars, handlerVars, periodVars, taskVars, connector_transactions,
                       connector_status, allowed_units, now>>
        /\ UNCHANGED <<connectionVars, bootVars, dispatchVars, sample_interval, grid_loop,
                       heartbeat_loops, earlier_loops>>

\* send_meter_values_loop when its send_call has returned or raised: a result
\* goes back to the while condition, an exception breaks
meter_loop_resumes(c) ==
    LET loop == meter_loops[c]
    IN  /\ loop.pc = "awaiting"
        /\ calls[loop.call].outcome # "none"
        /\ meter_loops' = [meter_loops EXCEPT ![c] =
               IF calls[loop.call].outcome = "result" /\ still_charging(c, loop.tx)
               THEN Loop("sleeping", loop.interval, loop.tx, 0)
               ELSE NoLoop]
        /\ UNCHANGED <<profileVars, taskVars, sessionVars, dispatchVars, sample_interval, grid_loop,
                       samples, heartbeat_loops, earlier_loops>>

\* the loop of an earlier transaction of connector c, still asleep when the
\* next transaction started, after its sleep: the same code as meter_loop_wakes
earlier_loop_wakes(c) ==
    LET loop == earlier_loops[c]
        connected == is_connected /\ websocket # NoSocket
    IN  /\ loop.pc = "sleeping"
        /\ IF ~still_charging(c, loop.tx) \/ observes_zero(loop)
           THEN /\ earlier_loops' = [earlier_loops EXCEPT ![c] = NoLoop]
                /\ UNCHANGED <<meter_values, samples, correlatorVars>>
           ELSE /\ meter_values' = meter_after_sampling(meter_values, c)
                /\ IF connected
                   THEN /\ message_id < MaxTelemetryCalls
                        /\ send_call("MeterValues")
                        /\ samples' = IF websocket.state = "open"
                                       THEN [samples EXCEPT ![c] = sampled_power(c)]
                                       ELSE samples
                        /\ earlier_loops' = [earlier_loops EXCEPT ![c] =
                               IF websocket.state = "open"
                               THEN Loop("awaiting", sample_interval, loop.tx, Len(calls) + 1)
                               ELSE NoLoop]
                   ELSE /\ earlier_loops' = [earlier_loops EXCEPT ![c] = NoLoop]
                        /\ UNCHANGED <<samples, correlatorVars>>
        /\ UNCHANGED <<managerVars, handlerVars, periodVars, taskVars, connector_transactions,
                       connector_status, allowed_units, now>>
        /\ UNCHANGED <<connectionVars, bootVars, dispatchVars, sample_interval, grid_loop,
                       heartbeat_loops, meter_loops>>

earlier_loop_resumes(c) ==
    LET loop == earlier_loops[c]
    IN  /\ loop.pc = "awaiting"
        /\ calls[loop.call].outcome # "none"
        /\ earlier_loops' = [earlier_loops EXCEPT ![c] =
               IF calls[loop.call].outcome = "result" /\ still_charging(c, loop.tx)
               THEN Loop("sleeping", loop.interval, loop.tx, 0)
               ELSE NoLoop]
        /\ UNCHANGED <<profileVars, taskVars, sessionVars, dispatchVars, sample_interval, grid_loop,
                       samples, heartbeat_loops, meter_loops>>

RECURSIVE total_power(_)
\* _generate_grid_sampled_values: the stored powers of connectors 1..n with a
\* transaction, 7400 for a connector without meter values, added up
total_power(n) ==
    IF n = 0 THEN 0
    ELSE total_power(n - 1)
         + (IF connector_transactions[n] = None THEN 0
            ELSE IF meter_values[n].present THEN meter_values[n].power
            ELSE DefaultMeterPower)

\* the while condition of send_grid_meter_values_loop
grid_continues == is_connected /\ boot_notification_accepted

\* send_grid_meter_values_loop after its sleep: it leaves when disconnected or
\* when the interval has become 0; a total above 0 is sent for connector 0; an
\* exception of send_call is logged and the loop goes on
grid_loop_wakes ==
    LET loop == grid_loop
        total == total_power(NumberOfConnectors)
    IN  /\ loop.pc = "sleeping"
        /\ IF ~is_connected \/ observes_zero(loop)
           THEN /\ grid_loop' = NoLoop
                /\ UNCHANGED <<samples, correlatorVars>>
           ELSE IF total > 0 /\ websocket # NoSocket
           THEN /\ message_id < MaxTelemetryCalls
                /\ send_call("MeterValues")
                /\ samples' = IF websocket.state = "open"
                               THEN [samples EXCEPT ![0] = total] ELSE samples
                /\ grid_loop' = IF websocket.state = "open"
                                 THEN Loop("awaiting", sample_interval, None, Len(calls) + 1)
                                 ELSE IF grid_continues
                                 THEN Loop("sleeping", sample_interval, None, 0)
                                 ELSE NoLoop
           ELSE /\ grid_loop' = IF grid_continues
                                 THEN Loop("sleeping", sample_interval, None, 0)
                                 ELSE NoLoop
                /\ UNCHANGED <<samples, correlatorVars>>
        /\ UNCHANGED <<profileVars, taskVars, connectionVars, bootVars, dispatchVars, sample_interval,
                       meter_loops, heartbeat_loops, earlier_loops>>

\* send_grid_meter_values_loop when its send_call has returned or raised
grid_loop_resumes ==
    /\ grid_loop.pc = "awaiting"
    /\ calls[grid_loop.call].outcome # "none"
    /\ grid_loop' = IF grid_continues THEN Loop("sleeping", grid_loop.interval, None, 0)
                     ELSE NoLoop
    /\ UNCHANGED <<profileVars, taskVars, sessionVars, dispatchVars, sample_interval, meter_loops,
                   samples, heartbeat_loops, earlier_loops>>

\* the requests and events drawn
TelemetryProfiles ==
    { Base(1, 0, "TxDefaultProfile", "W", <<Period(0, 4600, None)>>),
      Base(2, 0, "ChargePointMaxProfile", "W", <<Period(0, 6900, None)>>) }

TelemetryClearRequests == {ClearRequest(1, None, "None", None)}

SampleIntervals == {0, DefaultSampleInterval}

TelemetryEnvelopes == [kind : {"Result"}, id : 1 .. MaxTelemetryCalls, payload : {"Accepted"}]

TelemetryAnswered == \E e \in TelemetryEnvelopes : handle_message(e)

\* a transaction starts on a connector whose previous loop has ended
TelemetryStartTransaction ==
    /\ meter_loops[1] = NoLoop
    /\ connector_transactions[1] = None
    /\ start_transaction(1, 1)

TelemetryStopTransaction == stop_transaction(1)

TelemetrySetChargingProfile ==
    \E p \in TelemetryProfiles :
        /\ next_object < MaxSets
        /\ message_handlers_set_charging_profile(101,
               IF p.chargingProfilePurpose = "ChargePointMaxProfile" THEN 0 ELSE 1, p)

TelemetryClearChargingProfile ==
    \E request \in TelemetryClearRequests : message_handlers_clear_charging_profile(101, request)

ChangeConfiguration == \E value \in SampleIntervals : handle_change_configuration(101, value)

MeterLoopWakes == \E c \in PhysicalConnectors : meter_loop_wakes(c)

MeterLoopResumes == \E c \in PhysicalConnectors : meter_loop_resumes(c)

GridLoopWakes == grid_loop_wakes

GridLoopResumes == grid_loop_resumes

NextTelemetry ==
    \/ Connect \/ Accepts \/ SendBootNotification \/ TelemetryAnswered
    \/ TelemetryStartTransaction \/ TelemetryStopTransaction
    \/ TelemetrySetChargingProfile \/ TelemetryClearChargingProfile \/ ChangeConfiguration
    \/ MeterLoopWakes \/ MeterLoopResumes \/ GridLoopWakes \/ GridLoopResumes

SpecTelemetry == InitSessionSpec /\ [][NextTelemetry]_vars

---------------------------------------------------------------------------
(* The meter loops of one connector over successive transactions, whose ids
   are those of the StartTransaction responses (specification SpecMeter) *)

\* the transactionId values the central system answers StartTransaction with
AnsweredTransactionIds == {1, 2}

\* a transaction starts on connector 1, also while the loop of the previous
\* one still sleeps
MeterStartTransaction ==
    /\ earlier_loops[1] = NoLoop
    /\ \E tid \in AnsweredTransactionIds : start_transaction(1, tid)

EarlierLoopWakes == \E c \in PhysicalConnectors : earlier_loop_wakes(c)

EarlierLoopResumes == \E c \in PhysicalConnectors : earlier_loop_resumes(c)

NextMeter ==
    \/ Connect \/ Accepts \/ TelemetryAnswered
    \/ MeterStartTransaction \/ TelemetryStopTransaction
    \/ MeterLoopWakes \/ MeterLoopResumes \/ EarlierLoopWakes \/ EarlierLoopResumes

SpecMeter == InitSessionSpec /\ [][NextMeter]_vars

---------------------------------------------------------------------------
(* Properties of the store (specification Spec) *)

Objects(list) == {list[i].object : i \in DOMAIN list}
IsSetStep == next_object' # next_object
IsClearStep == last'.op = "clear" /\ now' = now

\* C1: on every connector no two stored profiles share a chargingProfileId and
\* no two share a (stackLevel, purpose) pair, so a connector never stores more
\* profiles than distinct pairs were submitted to it.
C1_NoConflictingProfilesStored ==
    \A c \in Connectors :
        LET list == charging_profiles[c]
        IN  /\ \A i, j \in DOMAIN list :
                  i # j => /\ list[i].chargingProfileId # list[j].chargingProfileId
                           /\ Pair(list[i]) # Pair(list[j])
            /\ Len(list) <= Cardinality(submitted[c])

\* two requests with different pairs were served on a connector, the second was
\* accepted and is the only profile left there: it evicted the first by its id
C1_Witness ==
    \E c \in Connectors :
        /\ last.op = "set" /\ last.connector = c /\ last.status = "Accepted"
        /\ Cardinality(submitted[c]) = 2
        /\ Objects(charging_profiles[c]) = {2}

\* C2: a SetChargingProfile answered Rejected or NotSupported leaves the stored
\* profiles and the stored limits of every connector as they were.
C2_RejectionChangesNothing ==
    [][(last'.op = "set" /\ last'.status \in {"Rejected", "NotSupported"})
          => /\ charging_profiles' = charging_profiles
             /\ current_limits' = current_limits]_vars

\* a request is rejected on a connector that stores a profile it conflicts with
C2_Witness ==
    /\ last.op = "set" /\ last.status \in {"Rejected", "NotSupported"}
    /\ last.connector \in Connectors
    /\ \E i \in DOMAIN charging_profiles[last.connector] :
          conflicts(charging_profiles[last.connector][i], last.profile)

\* C5: when an accepted profile replaces a stored profile with the same
\* (stackLevel, purpose) pair, the old profile is gone from the store and the
\* limit get_current_limit reports is not one the old profile determined.
C5_EvictedProfileLeavesNoLimit ==
    [][(IsSetStep /\ last'.status = "Accepted")
          => LET c == last'.connector
                 evicted == {charging_profiles[c][i].object :
                                i \in {j \in DOMAIN charging_profiles[c] :
                                         Pair(charging_profiles[c][j]) = Pair(last'.profile)}}
             IN  /\ evicted \cap Objects(charging_profiles'[c]) = {}
                 /\ current_limits'[c] # NoLimit => limit_source'[c].object \notin evicted]_vars

\* C7: whenever get_current_limit(c) is read, the limit it returns was not
\* determined by a profile whose validTo lies in the past or whose validFrom
\* lies in the future.
C7_LimitNotFromExpiredProfile ==
    \A c \in Connectors :
        get_current_limit(c) # NoLimit
            => /\ ~(Parses(limit_source[c].validTo) /\ limit_source[c].validTo < now)
               /\ ~(Parses(limit_source[c].validFrom) /\ limit_source[c].validFrom > now)

\* C8: a ClearChargingProfile carrying only an id removes the profiles with that
\* id from every connector and answers Accepted when there was one; repeated
\* with no other request in between it removes nothing and answers Unknown.
OnlyId(request) ==
    /\ request.id # None /\ request.connectorId = None
    /\ request.chargingProfilePurpose = "None" /\ request.stackLevel = None

HoldsId(store, id) ==
    \E c \in Connectors : \E i \in DOMAIN store[c] : store[c][i].chargingProfileId = id

C8_ClearByIdThenUnknown ==
    [][(IsClearStep /\ OnlyId(last'.request))
          => LET id == last'.request.id
             IN  /\ ~HoldsId(charging_profiles', id)
                 /\ \A c \in Connectors :
                       charging_profiles'[c] =
                          SelectSeq(charging_profiles[c],
                                    LAMBDA p : p.chargingProfileId # id)
                 /\ HoldsId(charging_profiles, id) => last'.status = "Accepted"
                 /\ (last.op = "clear" /\ last.request = last'.request)
                       => /\ last'.status = "Unknown"
                          /\ charging_profiles' = charging_profiles]_vars

\* a clear by id alone was answered Accepted after two profiles had been stored
\* on two connectors, and it emptied the store
C8_Witness ==
    /\ last.op = "clear" /\ OnlyId(last.request) /\ last.status = "Accepted"
    /\ next_object = 2
    /\ submitted[0] # {} /\ submitted[1] # {}
    /\ \A c \in Connectors : charging_profiles[c] = <<>>

\* C9: ClearChargingProfile removes exactly the profiles of the scanned
\* connectors that match by id, or by purpose (and stackLevel, when given) if a
\* connectorId is given; it answers Accepted iff it removed one, else Unknown.
C9_ShouldRemove(request, c, p) ==
    /\ request.connectorId # None => c = request.connectorId
    /\ \/ request.id # None /\ p.chargingProfileId = request.id
       \/ /\ request.connectorId # None
          /\ request.chargingProfilePurpose # "None"
          /\ p.chargingProfilePurpose = request.chargingProfilePurpose
          /\ request.stackLevel # None => p.stackLevel = request.stackLevel

C9_ClearRemovesExactlyTheMatches ==
    [][IsClearStep
          => LET request == last'.request
                 removes == \E c \in Connectors : \E i \in DOMAIN charging_profiles[c] :
                               C9_ShouldRemove(request, c, charging_profiles[c][i])
             IN  /\ \A c \in Connectors :
                       charging_profiles'[c] =
                          SelectSeq(charging_profiles[c],
                                    LAMBDA p : ~C9_ShouldRemove(request, c, p))
                 /\ last'.status = IF removes THEN "Accepted" ELSE "Unknown"]_vars

---------------------------------------------------------------------------
(* Properties of the checks (specification SpecValidate) *)

IsSetRequestStep ==
    /\ last'.op = "set" /\ now' = now
    /\ connector_transactions' = connector_transactions

StrictlyIncreasing(ps) == \A i \in 2 .. Len(ps) : ps[i].startPeriod > ps[i - 1].startPeriod

UnitName(unit) == IF unit = "W" THEN "Power" ELSE "Current"

OwnMaximum(p) == IF p.chargingRateUnit = "W" THEN max_power ELSE max_current

\* C3: SetChargingProfile answers with the status of the first check that
\* fails, taken in the order connector id, stackLevel, period count, period
\* offsets and limits, TxProfile transaction, rate unit (NotSupported), limit
\* above the charger maximum; and Accepted when none fails.
C3_ExpectedStatus(c, p, transactions, units) ==
    IF c < 0 \/ c > NumberOfConnectors THEN "Rejected"
    ELSE IF p.stackLevel > ChargeProfileMaxStackLevel THEN "Rejected"
    ELSE IF Len(Periods(p)) > ChargingScheduleMaxPeriods THEN "Rejected"
    ELSE IF \/ ~StrictlyIncreasing(Periods(p))
            \/ \E i \in DOMAIN Periods(p) : Periods(p)[i].limit < 0 THEN "Rejected"
    ELSE IF /\ p.chargingProfilePurpose = "TxProfile"
            /\ \/ p.transactionId # None /\ transaction_on(transactions, c) # p.transactionId
               \/ p.transactionId = None /\ c = 0 THEN "Rejected"
    ELSE IF UnitName(p.chargingRateUnit) \notin Range(units) THEN "NotSupported"
    ELSE IF \E i \in DOMAIN Periods(p) : Periods(p)[i].limit > OwnMaximum(p) THEN "Rejected"
    ELSE "Accepted"

C3_StatusOfFirstFailingCheck ==
    [][IsSetRequestStep
          => last'.status = C3_ExpectedStatus(last'.connector, last'.profile,
                                              connector_transactions, allowed_units)]_vars

\* C4 as claimed: a profile with a period whose limit in Watts (an Amperes
\* limit times 230 V times the period's numberPhases, 3 by default) exceeds the
\* charger's maximum power is answered Rejected.
InWatts(p, period) ==
    IF p.chargingRateUnit = "A"
    THEN period.limit * Voltage *
            (IF Truthy(period.numberPhases) THEN period.numberPhases ELSE DefaultPhases)
    ELSE period.limit

---------------------------------------------------------------------------
(* Properties of ChargingProfileHandler (specification SpecHandler) *)

IsHandlerSetStep == next_object' # next_object

\* the profile the last accepted set stored on connector 0
C6_New == CHOOSE p \in Range(active_profiles[0]) : p.object = next_object

C6_InForce(p) ==
    /\ is_profile_active(p, now, connector_transactions)
    /\ get_current_period_limit(p, now) # 0

C6_LimitOf(p) == handler_limits_from(p, Periods(p)[get_current_period_limit(p, now)].limit)

C6_Overriding(c, p) ==
    {i \in DOMAIN active_profiles[c] :
        /\ C6_InForce(active_profiles[c][i])
        /\ active_profiles[c][i].stackLevel > p.stackLevel}

C6_Reported(c, p) ==
    IF C6_Overriding(c, p) = {} THEN C6_LimitOf(p)
    ELSE C6_LimitOf(active_profiles[c][CHOOSE i \in C6_Overriding(c, p) :
                                          \A j \in C6_Overriding(c, p) : i <= j])

C6_After ==
    \A c \in PhysicalConnectors :
        (C6_InForce(C6_New) /\ active_profiles[0][1] = C6_New)
            => get_current_charging_limit(c) = C6_Reported(c, C6_New)

\* C6: once the handler has accepted a ChargePointMaxProfile on connector 0 (the
\* profile being in force and the highest of connector 0), the limit it reports
\* for every connector c >= 1 is that profile's limit, unless c holds a profile in
\* force with a higher stack level, whose limit is then reported instead
C6_ChargePointLimitReachesConnectors ==
    [][(/\ IsHandlerSetStep
        /\ handler_last'.status = "Accepted"
        /\ handler_last'.connector = 0
        /\ handler_last'.profile.chargingProfilePurpose = "ChargePointMaxProfile")
       => C6_After']_vars

---------------------------------------------------------------------------
(* Properties of the period in force (specification SpecPeriod) *)

\* the elapsed seconds the period is looked up with, by the kind of recurrence
C10_Reduced ==
    IF period_profile.chargingProfileKind = "Recurring"
    THEN IF period_profile.recurrencyKind = "Daily" THEN period_elapsed % 86400
         ELSE IF period_profile.recurrencyKind = "Weekly" THEN period_elapsed % 604800
         ELSE period_elapsed
    ELSE period_elapsed

\* the periods already started, and the limit of the last of them
C10_Started == {q \in Range(Periods(period_profile)) : q.startPeriod <= C10_Reduced}

C10_Expected ==
    IF C10_Started = {} THEN None
    ELSE (CHOOSE q \in C10_Started : \A r \in C10_Started : r.startPeriod <= q.startPeriod).limit

C10_Example ==
    period_profile = DailyExample =>
        /\ period_elapsed \in {0, 3599, 86400} => period_limit.limit = 11000
        /\ period_elapsed \in {3600, 86399} => period_limit.limit = 7400

\* C10: for a Recurring profile the period in force is the last one whose
\* startPeriod does not exceed the elapsed seconds modulo 86400 (Daily) or 604800
\* (Weekly); with periods (0, 11000) and (3600, 7400), Daily, the limit is 11000
\* at 0 s and 3599 s, 7400 at 3600 s and 86399 s, and 11000 again at 86400 s
C10_PeriodInForce ==
    period_limit.evaluated => (period_limit.limit = C10_Expected /\ C10_Example)

C10_Witness ==
    /\ period_limit.evaluated
    /\ period_profile = DailyExample
    /\ period_elapsed = 86400
    /\ period_limit.limit = 11000

---------------------------------------------------------------------------
(* Properties of the calls (specifications SpecSession, SpecSessionLive) *)

Registered(id) == id \in DOMAIN pending_requests

IsSuspended(k) == IF k \in DOMAIN calls THEN Suspended(calls[k]) ELSE FALSE

HasEnded(k) == IF k \in DOMAIN calls THEN calls[k].outcome # "none" ELSE FALSE

C11_TimedOutAtThirtySeconds ==
    \A k \in DOMAIN calls :
        /\ Suspended(calls[k]) => calls[k].waited <= 30
        /\ calls[k].outcome = "timeout" =>
              /\ calls[k].waited = 30
              /\ calls[k].payload = "None"
              /\ ~Registered(calls[k].id)

\* C11: a send_call that no response with its id reaches is suspended for 30
\* seconds and no longer, then fails with the timeout error, and from then on
\* its id is not registered in pending_requests
C11_TimeoutDeregisters ==
    /\ []C11_TimedOutAtThirtySeconds
    /\ \A k \in 1 .. MaxCalls :
          IsSuspended(k) ~> HasEnded(k)

C11_Witness ==
    \E k \in DOMAIN calls :
        /\ calls[k].outcome = "timeout"
        /\ calls[k].waited = 30
        /\ pending_requests = <<>>

\* C12: a call that ended with a result or an error was resolved by the
\* envelope that carried its own id: a Result gave it that envelope's payload,
\* an Error failed it with that envelope's error, and a call no envelope has
\* resolved holds no payload, whatever the order the responses arrive in
C12_ResolvedByOwnIdOnly ==
    \A k \in DOMAIN calls :
        /\ calls[k].outcome \in {"result", "error"} =>
              /\ calls[k].by = calls[k].id
              /\ calls[k].future = calls[k].outcome
              /\ calls[k].outcome = "result" => calls[k].payload \in {"Accepted", "Rejected"}
              /\ calls[k].outcome = "error" => calls[k].payload = "InternalError"
        /\ calls[k].by # None => calls[k].by = calls[k].id
        /\ calls[k].future \in {"pending", "cancelled"} =>
              calls[k].payload = "None" /\ calls[k].by = None

\* two calls are outstanding and the response to the second arrives first
C12_Witness ==
    /\ Len(calls) = 2
    /\ Suspended(calls[1])
    /\ calls[2].outcome = "result" /\ calls[2].by = 2 /\ calls[2].payload = "Rejected"

\* the outcomes send_call delivers for a request it has sent
Delivered == {"result", "error", "timeout"}

C13_OutcomeIsFinal(k) ==
    calls[k].outcome \in Delivered =>
        /\ calls'[k] = calls[k]
        /\ calls[k].id \notin DOMAIN pending_requests'

C13_OutcomeRemovesOwnEntryOnly(k) ==
    (calls[k].outcome = "none" /\ calls'[k].outcome # "none") =>
        /\ calls'[k].outcome \in Delivered
        /\ calls[k].id \in DOMAIN pending_requests
        /\ calls[k].id \notin DOMAIN pending_requests'
        /\ \A j \in (DOMAIN calls) \ {k} :
              /\ calls'[j] = calls[j]
              /\ calls[j].id \in DOMAIN pending_requests
                    <=> calls[j].id \in DOMAIN pending_requests'

\* C13: a request gets one outcome (result, error or timeout) and keeps it: in
\* the step that delivers it the id leaves pending_requests and no other call
\* and no other entry changes, and no later step (a late or repeated envelope
\* with the id, an envelope with an id never issued) changes the call again
C13_AtMostOneOutcome ==
    [][\A k \in DOMAIN calls :
          C13_OutcomeIsFinal(k) /\ C13_OutcomeRemovesOwnEntryOnly(k)]_vars

\* one call failed with an error and the other timed out
C13_Witness ==
    /\ Len(calls) = 2
    /\ calls[1].outcome = "error" /\ calls[1].future = "error"
    /\ calls[2].outcome = "timeout" /\ calls[2].future = "cancelled"
    /\ pending_requests = <<>>

\* C14: the ids send_call takes from get_next_message_id are strictly
\* increasing in the order of the calls, hence never reused, across concurrent
\* calls and across the connections of the simulator; message_id is the last
\* id taken and only ids taken are registered
C14_IdsStrictlyIncreasing ==
    /\ \A i, j \in DOMAIN calls : i < j => calls[i].id < calls[j].id
    /\ \A k \in DOMAIN calls : calls[k].id >= 1 /\ calls[k].id <= message_id
    /\ Len(calls) > 0 => calls[Len(calls)].id = message_id
    /\ \A id \in DOMAIN pending_requests : \E k \in DOMAIN calls : calls[k].id = id

\* a call was made on the first connection and the next one, while the first
\* is still registered, on the second connection
C14_Witness ==
    /\ Len(calls) = 2
    /\ calls[1].connection = 1 /\ calls[2].connection = 2
    /\ calls[1].id = 1 /\ calls[2].id = 2
    /\ DOMAIN pending_requests = {1, 2}

\* the session closes: disconnect(), a Reset, or the end of the receive loop
SessionCloses ==
    \/ is_connected /\ ~is_connected'
    \/ websocket.state = "open" /\ websocket'.state = "closed"

\* C15: the step that closes the session (disconnect, or the loss of the
\* connection) ends every send_call pending at that moment, none stays
\* suspended, and pending_requests is empty after it
C15_ClosingCancelsPending ==
    [][SessionCloses =>
          /\ pending_requests' = << >>
          /\ \A k \in DOMAIN calls' : ~Suspended(calls'[k])]_vars

---------------------------------------------------------------------------
(* Properties of the connect cycles (specification SpecConnect) *)

C16_BoundedCycles ==
    /\ failed_cycles <= 5
    /\ reconnect_attempts <= 5
    /\ connect_pc = "given_up" <=> reconnect_attempts = 5
    /\ connect_pc = "sleeping" => sleep_left \in 0 .. 5

C16_CycleStarts == connect_pc # "connecting" /\ connect_pc' = "connecting"

C16_RetryAfterWait ==
    /\ (C16_CycleStarts /\ connect_pc # "idle") => connect_pc = "sleeping" /\ sleep_left = 0
    /\ (connect_pc # "sleeping" /\ connect_pc' = "sleeping") => sleep_left' = 5
    /\ (connect_pc = "sleeping" /\ sleep_left' > sleep_left) => connect_pc' # "sleeping"

C16_GivenUpIsTerminal ==
    connect_pc = "given_up" =>
        /\ connect_pc' = "given_up"
        /\ UNCHANGED <<attempt, websocket, reconnect_attempts, failed_cycles>>

\* C16: no more than 5 connect cycles fail in a row; a cycle other than the
\* first starts only out of a wait that was set to 5 seconds and has run down
\* to 0; and when reconnect_attempts has reached 5 the simulator has given up,
\* for good: no strategy is tried and no cycle is started from then on
C16_GivesUpAfterFiveCycles ==
    /\ []C16_BoundedCycles
    /\ [][C16_RetryAfterWait /\ C16_GivenUpIsTerminal]_vars

\* five cycles in a row failed on their last strategy, no connection was ever
\* made, and the simulator has given up
C16_Witness ==
    /\ connect_pc = "given_up"
    /\ failed_cycles = 5 /\ reconnect_attempts = 5
    /\ websocket = NoSocket
    /\ attempt = Attempt(3, "error")

\* the receive loop of a connected simulator ends
C17_TransportEnds == Receiving /\ is_connected /\ ~Receiving'

\* the simulator itself closed the connection (disconnect(), handle_reset)
C17_ClosedLocally == ~is_connected' /\ connect_pc' = "returned"

C17_Retrying ==
    \/ connect_pc' = "sleeping"
    \/ connect_pc' = "given_up" /\ reconnect_attempts' >= 5

\* C17: when the central system closes the connection or the receive loop
\* fails while the simulator is connected, is_connected is False after the
\* step and the simulator is on its way to a new connect cycle (waiting its 5
\* seconds), or has given up with the counter exhausted
C17_LossLeadsToReconnect ==
    [][(C17_TransportEnds /\ ~C17_ClosedLocally) =>
          ~is_connected' /\ C17_Retrying]_vars

\* a strategy succeeds
C18_Succeeds == websocket'.number = websocket.number + 1

C18_BootTriggered ==
    C18_Succeeds =>
        /\ reconnect_attempts' = 0
        /\ is_connected'
        /\ boot_tasks' = boot_tasks + 1

\* send_boot_notification runs on a connected simulator
C18_BootSends ==
    (boot_tasks' = boot_tasks - 1 /\ is_connected /\ websocket # NoSocket) =>
        /\ Len(calls') = Len(calls) + 1
        /\ calls'[Len(calls')].action = "BootNotification"
        /\ calls'[Len(calls')].id \in DOMAIN pending_requests'

C18_LoopsStartOnAccepted ==
    loops' # loops =>
        /\ loops' = loops + 1
        /\ boot_notification_accepted'
        /\ \E k \in DOMAIN calls :
              /\ calls[k].action = "BootNotification"
              /\ Suspended(calls[k])
              /\ calls'[k].outcome = "result"
              /\ calls'[k].payload = "Accepted"

\* C18: the step in which a strategy succeeds sets reconnect_attempts to 0 and
\* starts send_boot_notification, which on a connected simulator sends a
\* BootNotification; the heartbeat and grid telemetry loops are started only by
\* the step in which a waiting BootNotification is answered Accepted
C18_SuccessTriggersBoot ==
    [][C18_BootTriggered /\ C18_BootSends /\ C18_LoopsStartOnAccepted]_vars

\* the second connection, made by the third strategy after the first
\* connection was lost: the counter is back at 0, the BootNotification sent on it was answered
\* Accepted and the loops have been started once
C18_Witness ==
    /\ websocket = [method |-> 3, number |-> 2, state |-> "open"]
    /\ reconnect_attempts = 0
    /\ boot_notification_accepted /\ loops = 1
    /\ \E k \in DOMAIN calls :
          /\ calls[k].connection = 2 /\ calls[k].action = "BootNotification"
          /\ calls[k].outcome = "result" /\ calls[k].payload = "Accepted"

\* a failure other than a 401
C19_FellThrough(result) == result \in {"status", "error"}

C19_InOrder ==
    attempt' # attempt =>
        \/ attempt' = NoAttempt /\ connect_pc' = "connecting" /\ connect_pc # "connecting"
        \/ /\ connect_pc = "connecting"
           /\ attempt'.method = attempt.method + 1
           /\ attempt = NoAttempt \/ C19_FellThrough(attempt.result)

C19_SuccessProvidesWebsocket ==
    /\ websocket' # websocket /\ websocket'.state = "open" =>
          /\ attempt'.result = "connected"
          /\ websocket'.method = attempt'.method
    /\ attempt.result = "connected" => (attempt' = attempt \/ attempt' = NoAttempt)

C19_Methods ==
    /\ connection_methods[1] = "_connect_with_headers"
    /\ connection_methods[2] = "_connect_with_embedded_auth"
    /\ connection_methods[3] = "_connect_basic"
    /\ attempt.method \in 0 .. 3
    /\ connect_pc = "connected" => attempt = Attempt(websocket.method, "connected")

\* C19: in a connect cycle the strategies are tried in the order header,
\* credentials in the URI, no credentials, each one only after the one before
\* it failed with something other than a 401; the strategy that succeeds gives
\* the websocket in use, and after a success no strategy is tried until a new
\* cycle starts
C19_StrategiesInOrder ==
    /\ []C19_Methods
    /\ [][C19_InOrder /\ C19_SuccessProvidesWebsocket]_vars

\* the first cycle: the header strategy failed and the URI strategy made the
\* connection
C19_Witness ==
    /\ attempt = Attempt(2, "connected")
    /\ websocket = [method |-> 2, number |-> 1, state |-> "open"]
    /\ connect_pc = "connected"
    /\ failed_cycles = 0 /\ reconnect_attempts = 0

C20_AfterFailure ==
    /\ attempt.result = "401" <=> connect_pc = "unauthorized"
    /\ (C19_FellThrough(attempt.result) /\ attempt.method < 3) => connect_pc = "connecting"
    /\ (C19_FellThrough(attempt.result) /\ attempt.method = 3) =>
          connect_pc \in {"sleeping", "given_up"}

C20_UnauthorizedEndsCycle ==
    /\ connect_pc = "unauthorized" =>
          UNCHANGED <<attempt, connect_pc, reconnect_attempts, sleep_left>>
    /\ (attempt' # attempt /\ attempt'.result = "401") =>
          UNCHANGED <<websocket, is_connected, reconnect_attempts, sleep_left>>
    /\ (attempt' # attempt /\ C19_FellThrough(attempt.result) /\ attempt.method < 3) =>
          attempt'.method = attempt.method + 1

\* C20: a 401 on a strategy ends the connect cycle: no further strategy is
\* tried, nothing waits and nothing retries; after any other failure the next
\* strategy is the one tried, and after the last the failure handling runs
C20_Only401IsTerminal ==
    /\ []C20_AfterFailure
    /\ [][C20_UnauthorizedEndsCycle]_vars

\* the header strategy failed otherwise, the URI strategy met a 401, and the
\* cycle ended without trying the third
C20_Witness ==
    /\ attempt = Attempt(2, "401")
    /\ connect_pc = "unauthorized"
    /\ websocket = NoSocket
    /\ reconnect_attempts = 0

---------------------------------------------------------------------------
(* Properties of the dispatch (specification SpecDispatch) *)

\* the step handles one inbound frame that is not a response
IsFrameStep == frame'.turn # frame.turn

C22_MalformedAnsweredWithError ==
    [][ (IsFrameStep /\ frame'.kind \in Malformed)
        => /\ \E i \in DOMAIN responses' : responses'[i].kind = "Error"
           /\ Receiving'
           /\ pending_requests' = pending_requests ]_vars

\* C23 (as claimed): a request whose action has a registered handler,
\* received while connected, is answered with exactly one Result or Error
\* envelope under its id; for SetChargingProfile and ClearChargingProfile the
\* status of the response is the status the manager returned
C23_ExactlyOneResponse ==
    [][ (IsFrameStep /\ frame'.kind = "Call" /\ frame'.action \in Handlers /\ is_connected)
        => /\ Len(responses') = 1
           /\ responses'[1].kind \in {"Result", "Error"}
           /\ responses'[1].id = frame'.id
           /\ frame'.action \in {"SetChargingProfile", "ClearChargingProfile"}
                 => responses'[1].payload.status = last'.status ]_vars

---------------------------------------------------------------------------
(* Properties of the telemetry (specification SpecTelemetry) *)

\* the step sends a MeterValues request with a Power.Active.Import sample of
\* connector c: the loop of the connector, or the grid loop for connector 0
Sampled(c) ==
    IF c = 0
    THEN grid_loop.pc = "sleeping" /\ grid_loop'.pc = "awaiting"
    ELSE meter_loops[c].pc = "sleeping" /\ meter_loops'[c].pc = "awaiting"

\* the step sends a MeterValues request
SendsMeterValues ==
    \E k \in DOMAIN calls' : k \notin DOMAIN calls /\ calls'[k].action = "MeterValues"

\* C24 (as claimed): a Power.Active.Import sample sent for a connector is at
\* most get_current_limit(c)['power'] whenever that limit is present, whatever
\* set and clear requests came before
C24_SampleWithinLimit ==
    [][ \A c \in Connectors :
          (Sampled(c) /\ get_current_limit(c).power # None)
              => samples'[c] <= get_current_limit(c).power ]_vars

\* C25: while MeterValueSampleInterval is 0 no MeterValues request is sent; a
\* meter loop created while it is 0 never exists as a running loop, and a loop
\* that wakes up while it is 0 ends there
C25_ZeroIntervalSendsNothing ==
    [][ sample_interval = 0
        => /\ ~SendsMeterValues
           /\ \A c \in PhysicalConnectors :
                 /\ connector_transactions'[c] # connector_transactions[c]
                       => meter_loops'[c] = meter_loops[c]
                 /\ (meter_loops[c].pc = "sleeping" /\ meter_loops'[c] # meter_loops[c])
                       => meter_loops'[c] = NoLoop
           /\ (grid_loop.pc = "sleeping" /\ grid_loop' # grid_loop) => grid_loop' = NoLoop
           /\ (grid_loop.pc = "none" /\ sample_interval' = 0) => grid_loop'.pc = "none" ]_vars

\* C25 witness: samples were sent, then the interval became 0; the transaction
\* is still running and its loop has ended
C25_Witness ==
    /\ sample_interval = 0
    /\ connector_transactions[1] # None
    /\ meter_loops[1] = NoLoop
    /\ samples[1] # None
    /\ boot_notification_accepted

\* C26 (as claimed): the power reported for a connector is min(baseline,
\* limit) while a limit is present and the nominal baseline, 7400 W, when
\* there is none, also after a limit was applied and removed
C26_BaselineWithoutLimit ==
    [][ \A c \in PhysicalConnectors :
          Sampled(c)
              => samples'[c] = IF get_current_limit(c).power # None
                               THEN Min(DefaultMeterPower, get_current_limit(c).power)
                               ELSE DefaultMeterPower ]_vars

---------------------------------------------------------------------------
(* GetCompositeSchedule (specification SpecDispatch) *)

\* the profiles stored on connector c whose validity window holds now
C27_Active(c) ==
    {i \in DOMAIN charging_profiles[c] : is_valid_at(charging_profiles[c][i], now)}

\* among them, those of the highest stackLevel
C27_Highest(c) ==
    {i \in C27_Active(c) :
        \A j \in C27_Active(c) :
            charging_profiles[c][j].stackLevel <= charging_profiles[c][i].stackLevel}

\* C27: GetCompositeSchedule for a connector outside 0..N is answered
\* Rejected; for a connector without an active profile Accepted without a
\* schedule; otherwise Accepted with the periods of the active profile of the
\* highest stackLevel on that connector and a duration of at most the one
\* requested
C27_CompositeSchedule ==
    [][ (IsFrameStep /\ frame'.action = "GetCompositeSchedule")
        => LET c == frame'.connectorId
               answer == responses'[1].payload
           IN  /\ Len(responses') = 1
               /\ IF c \notin Connectors THEN answer = Payload("Rejected")
                  ELSE IF C27_Active(c) = {} THEN answer = Payload("Accepted")
                  ELSE /\ answer.status = "Accepted"
                       /\ answer.connectorId = c
                       /\ answer.chargingSchedule.duration <= frame'.duration
                       /\ \E i \in C27_Highest(c) :
                             answer.chargingSchedule.chargingSchedulePeriod
                                 = charging_profiles[c][i].chargingSchedulePeriod ]_vars

\* C27 witness: two profiles are stored on connector 1, the one of the higher
\* stack level has expired, and the schedule returned is the one of the other
\* profile, its duration of 3600 below the 86400 requested
C27_Witness ==
    /\ frame.action = "GetCompositeSchedule"
    /\ frame.connectorId = 1
    /\ frame.duration = SecondsPerDay
    /\ Len(charging_profiles[1]) = 2
    /\ C27_Active(1) # DOMAIN charging_profiles[1]
    /\ Len(responses) = 1
    /\ responses[1].payload.chargingSchedule.duration = 3600
    /\ responses[1].payload.chargingSchedule.chargingSchedulePeriod = <<Period(0, 4600, None)>>

---------------------------------------------------------------------------
(* Properties of ChargingProfileHandler's ranking (specification SpecHandler) *)

\* the active profiles among those of connector c and of connector 0
C28_Active(c) ==
    {p \in Range(active_profiles[c]) \cup (IF c > 0 THEN Range(active_profiles[0]) ELSE {}) :
        is_profile_active(p, now, connector_transactions)}

\* of these, the one of the highest stack level and, among equals, the one
\* accepted first
C28_Winner(c) ==
    CHOOSE p \in C28_Active(c) :
        \A q \in C28_Active(c) :
            \/ q.stackLevel < p.stackLevel
            \/ q.stackLevel = p.stackLevel /\ p.object <= q.object

\* the limit of connector c is the one of that profile's period in force
C28_DecidedByWinner(c) ==
    (C28_Active(c) # {} /\ get_current_period_limit(C28_Winner(c), now) # 0)
        => get_current_charging_limit(c)
              = handler_limits_from(C28_Winner(c),
                   Periods(C28_Winner(c))[get_current_period_limit(C28_Winner(c), now)].limit)

\* C28 (as claimed): when ChargingProfileHandler has accepted a profile for
\* connector c and calculated the limits of c, the limit is the one of the
\* active profile of the highest stackLevel among the profiles of c and of
\* connector 0, and among several of that stackLevel the one accepted first,
\* whichever of the two connectors holds it
C28_HighestThenFirstAccepted ==
    [][ (IsHandlerSetStep /\ handler_last'.status = "Accepted")
        => \A c \in Connectors : (c = handler_last'.connector) => C28_DecidedByWinner(c)' ]_vars

---------------------------------------------------------------------------
(* Properties of a Relative profile (specification SpecRelative) *)

\* the Relative profile, accepted at time 0, is the first of connector 1's list
C29_RelativeWins ==
    /\ charging_profiles[1] # <<>>
    /\ charging_profiles[1][1].chargingProfileId = RelativeProfile.chargingProfileId

\* the limit of the last period whose startPeriod has elapsed since time 0
C29_LimitSinceAcceptance ==
    LET ps == RelativeProfile.chargingSchedulePeriod
        reached == {i \in DOMAIN ps : ps[i].startPeriod <= now - 0}
    IN  ps[CHOOSE i \in reached : \A j \in reached : j <= i].limit

\* C29 (as claimed): whenever the manager works out the limit of connector 1
\* with the Relative profile winning, the period that decides is the last one
\* whose startPeriod is at most the time since the profile was accepted
C29_ElapsedSinceAcceptance ==
    [][ (IsSetStep /\ last'.status = "Accepted" /\ last'.connector = 1 /\ C29_RelativeWins')
        => current_limits'[1].power = C29_LimitSinceAcceptance' ]_vars

---------------------------------------------------------------------------
(* Properties of transaction profiles (specification SpecHandlerTx) *)

\* a TxProfile bound to a transaction that is on no connector
C30_Stale(p) ==
    /\ p.chargingProfilePurpose = "TxProfile"
    /\ Truthy(p.transactionId)
    /\ \A k \in PhysicalConnectors : connector_transactions[k] # p.transactionId

\* C30 (as claimed): at every time the limit get_current_charging_limit(c)
\* reports is not the limit of a period of a TxProfile, stored for c or for
\* connector 0, whose transaction is on no connector (the profiles drawn have
\* limits all different, so that the limit tells the profile)
C30_NoLimitFromStoppedTransaction ==
    \A c \in Connectors :
        \A p \in Range(active_profiles[c]) \cup Range(active_profiles[0]) :
            C30_Stale(p)
                => \A i \in DOMAIN Periods(p) :
                      get_current_charging_limit(c) # handler_limits_from(p, Periods(p)[i].limit)

---------------------------------------------------------------------------
(* Properties of the reads (specification SpecRead) *)

\* the step is a call of get_current_limit or a write of its caller into what
\* it was given
TouchesView == limit_view' # limit_view

\* the step is a call of handle_get_composite_schedule
ReadsSchedule == last'.op = "schedule" /\ last' # last

\* C31: get_current_limit and handle_get_composite_schedule, called for any
\* connector id, known or not, leave the stored profiles and the stored limits
\* of every connector as they were; get_current_limit returns the stored
\* limit, all-None for an unknown connector; and a caller writing into the
\* dictionary it was given changes no stored limit
C31_PureReads ==
    [][ /\ (TouchesView \/ ReadsSchedule)
            => UNCHANGED <<charging_profiles, current_limits, limit_source, meter_values>>
        /\ (TouchesView /\ ~limit_view'.written)
            => limit_view'.value = IF limit_view'.connector \in Connectors
                                   THEN current_limits[limit_view'.connector]
                                   ELSE NoLimit ]_vars

\* C31 witness: connector 1 is limited to 4600 W, a caller was given that
\* limit and has zeroed its dictionary, and the stored limit is still 4600 W
C31_Witness ==
    /\ limit_view.connector = 1
    /\ limit_view.written
    /\ limit_view.value.power = 0
    /\ current_limits[1].power = 4600
    /\ last.op = "schedule"

---------------------------------------------------------------------------
(* Properties of the receive loop (specification SpecSerial) *)

\* the requests message_handler has read are served to the end
Served_all == handler.pc \in {"idle", "respond"}

\* C32: SetChargingProfile and ClearChargingProfile requests are served one
\* at a time, however they arrive: a request is read only when the handler of
\* the one before has returned, and whenever no operation is under way the
\* stored profiles and the stored limits are those of the requests read so far
\* executed one after another in their order of arrival
C32_Serialized ==
    /\ Served_all
          => LET st == one_after_another(inbox.frames, inbox.read)
             IN  /\ charging_profiles = st.profiles
                 /\ current_limits = st.limits
    /\ ~Served_all => frame.id = handler.id

\* C32 witness: three requests for connector 1, the second and the third
\* arrived while the first was served; all are served and a profile is stored
C32_Witness ==
    /\ inbox.read = MaxFrames
    /\ handler.pc = "idle"
    /\ inbox.frames[2].overlapped /\ inbox.frames[3].overlapped
    /\ inbox.frames[1].action = "SetChargingProfile"
    /\ inbox.frames[2].action = "ClearChargingProfile"
    /\ inbox.frames[3].action = "SetChargingProfile"
    /\ charging_profiles[1] # <<>>
    /\ current_limits[1].power = 4600

---------------------------------------------------------------------------
(* Properties of the recomputation (specification Spec) *)

\* the step is an accepted handle_set_charging_profile for connector c, or a
\* handle_clear_charging_profile that removed a profile of connector c
Mutates(c) ==
    \/ /\ next_object' # next_object
       /\ last'.op = "set" /\ last'.status = "Accepted" /\ last'.connector = c
    \/ /\ next_object' = next_object
       /\ last'.op = "clear" /\ last'.status = "Accepted"
       /\ charging_profiles'[c] # charging_profiles[c]

\* the limit the profiles of `list` yield at time t by themselves: all-None
\* when none of them has a period in force
limit_computed(list, t) == update_current_limits(list, NoLimit, t)

\* C33 (as claimed): right after every accepted set and every clear that
\* removed a profile, the stored limit of each mutated connector is the limit
\* computed at that moment from the profiles then stored, all-None when none of
\* them yields one
C33_LimitIsRecomputed ==
    [][ \A c \in Connectors :
          Mutates(c) => current_limits'[c] = limit_computed(charging_profiles'[c], now) ]_vars

---------------------------------------------------------------------------
(* Properties of a charge-point profile in the simulator as wired
   (specification SpecTelemetry) *)

\* the power limit the profiles stored for connector 0 yield now
charge_point_limit == limit_computed(charging_profiles[0], now).power

\* C34 (as claimed): while the profiles of connector 0 yield a limit, a
\* connector c > 0 without a profile of its own has a limit,
\* get_current_limit(c)['power'], that is at most that of connector 0, and the
\* Power.Active.Import samples sent for c are at most that limit
C34_ChargePointProfileBoundsConnectors ==
    [][ \A c \in PhysicalConnectors :
          (charging_profiles[c] = <<>> /\ charge_point_limit # None)
              => /\ get_current_limit(c).power # None
                 /\ get_current_limit(c).power <= charge_point_limit
                 /\ Sampled(c) => samples'[c] <= charge_point_limit ]_vars

---------------------------------------------------------------------------
(* Properties of the limit when the profile on top has no period in force
   (specification SpecFallThrough) *)

\* profile p, whose schedule started at `start`, has at time t a period whose
\* startPeriod the elapsed seconds have reached
HasQualifyingPeriod(p, start, t) ==
    \E k \in DOMAIN Periods(p) : Periods(p)[k].startPeriod <= reduce_elapsed(p, t - start)

\* the active profiles the handler weighs for connector c
HandlerActive(store, c, t, transactions) ==
    {p \in Range(store[c]) \cup (IF c > 0 THEN Range(store[0]) ELSE {}) :
        is_profile_active(p, t, transactions)}

HandlerQualifying(store, c, t, transactions) ==
    {p \in HandlerActive(store, c, t, transactions) :
        HasQualifyingPeriod(p, handler_schedule_start(p, t), t)}

\* the limits are those of a qualifying period of a profile of the highest
\* stack level among the qualifying ones
TakenFromNext(qualifying, limits, t) ==
    \E p \in qualifying :
        /\ \A q \in qualifying : q.stackLevel <= p.stackLevel
        /\ \E k \in DOMAIN Periods(p) :
              /\ Periods(p)[k].startPeriod <= reduce_elapsed(p, t - handler_schedule_start(p, t))
              /\ limits = handler_limits_from(p, Periods(p)[k].limit)

HandlerFallsThrough(store, t, transactions) ==
    \A c \in Connectors :
        LET limits == calculate_effective_limits(store, c, t, transactions)
            qualifying == HandlerQualifying(store, c, t, transactions)
        IN  /\ qualifying # {} => TakenFromNext(qualifying, limits, t)
            /\ limits.power_limit = None => qualifying = {}

\* the same for the manager's stored profiles of connector c after a step
ManagerQualifying(list, t) ==
    {p \in Range(list) : is_valid_at(p, t) /\ HasQualifyingPeriod(p, schedule_start(p, t), t)}

ManagerFallsThrough ==
    \A c \in Connectors :
        charging_profiles'[c] # charging_profiles[c]
            => LET qualifying == ManagerQualifying(charging_profiles'[c], now)
               IN  /\ qualifying # {}
                        => \E p \in qualifying :
                              /\ \A q \in qualifying : q.stackLevel <= p.stackLevel
                              /\ \E k \in DOMAIN Periods(p) :
                                    /\ Periods(p)[k].startPeriod
                                          <= reduce_elapsed(p, now - schedule_start(p, now))
                                    /\ current_limits'[c] =
                                          limits_from(p, Periods(p)[k].limit, NoLimit)
                   /\ current_limits'[c].power = None => qualifying = {}

\* C39: when the active profile of the highest stack level has no period
\* whose startPeriod the elapsed seconds have reached, the effective limit
\* comes from the next active profile in stack-level order that has one, and
\* it is absent only when no active profile has one; for the handler's
\* _calculate_effective_limits in the state every step leads to, for the
\* manager's stored limit right after a request changed the profiles
C39_FallsThroughToNextProfile ==
    [][ /\ HandlerFallsThrough(active_profiles', now', connector_transactions')
        /\ ManagerFallsThrough ]_vars

\* C39 witness: on some connector the handler's first candidate has no period
\* in force and the limit comes from a profile below it, and the manager's
\* stored list is headed by such a profile while its limit is present
C39_Witness ==
    \E c \in Connectors :
        LET all == handler_candidates(active_profiles, c, now, connector_transactions)
            qualifying == HandlerQualifying(active_profiles, c, now, connector_transactions)
        IN  /\ Len(all) > 1
            /\ all[1] \notin qualifying
            /\ qualifying # {}
            /\ handler_limits[c].power_limit # None
            /\ Len(charging_profiles[c]) > 1
            /\ get_applicable_period(charging_profiles[c][1], now) = 0
            /\ current_limits[c].power # None

---------------------------------------------------------------------------
(* Properties of the ids registered in pending_requests
   (specification SpecSession) *)

\* C37 (as claimed): pending_requests holds only ids of send_call invocations
\* that have not ended: once an invocation has ended, by a result, an error of
\* the peer, the timeout, or an exception of websocket.send, its id is not
\* registered
C37_OnlyUnendedCallsRegistered ==
    \A id \in DOMAIN pending_requests : calls[pending_requests[id]].outcome = "none"

---------------------------------------------------------------------------
(* Properties of the MeterValues of a transaction (specification SpecMeter) *)

\* the step sends a MeterValues request from the loop that `before` was and
\* `after` is
LoopSends(before, after) == before.pc = "sleeping" /\ after.pc = "awaiting"

\* C40 (as claimed): a loop sends MeterValues with transactionId t for
\* connector c only in a step that starts with t recorded for c and c Charging,
\* and the loop of a transaction that was stopped sends nothing any more, also
\* after a new transaction has started on the connector
C40_MeterValuesOnlyForActiveTransaction ==
    [][ \A c \in PhysicalConnectors :
          /\ LoopSends(meter_loops[c], meter_loops'[c])
                => still_charging(c, meter_loops[c].tx)
          /\ LoopSends(earlier_loops[c], earlier_loops'[c])
                => still_charging(c, earlier_loops[c].tx)
          /\ ~LoopSends(earlier_loops[c], earlier_loops'[c]) ]_vars

---------------------------------------------------------------------------
(* Properties of the heartbeat_loop tasks (specification SpecHeartbeat) *)

\* the heartbeat_loop tasks that have not returned
LiveHeartbeatLoops == {i \in DOMAIN heartbeat_loops : heartbeat_loops[i].pc # "none"}

\* C36 (as claimed): whenever a heartbeat_loop task sends a Heartbeat request,
\* no other heartbeat_loop task is live
C36_OneHeartbeatLoop ==
    [][ \A i \in DOMAIN heartbeat_loops :
          (heartbeat_loops[i].pc = "sleeping" /\ heartbeat_loops'[i].pc = "awaiting")
              => LiveHeartbeatLoops = {i} ]_vars

---------------------------------------------------------------------------
(* Properties of a send_call awaited inside an inbound handler
   (specification SpecRemote) *)

\* C35 (as claimed): with a central system that answers at once, no call ever
\* ends by its timeout, and the handler of a RemoteStartTransaction for an
\* Available connector returns only after start_transaction has sent
\* StartTransaction and recorded the transaction
C35_NestedCallIsAnswered ==
    [][ /\ \A k \in DOMAIN calls' : calls'[k].outcome # "timeout"
        /\ (handler.pc = "start" /\ handler'.pc = "idle"
               /\ starts[handler.start].pc # "returned")
              => /\ \E k \in DOMAIN calls : calls[k].action = "StartTransaction"
                 /\ connector_transactions[handler.connector] # None ]_vars

---------------------------------------------------------------------------
(* Properties of overlapping start_transaction invocations
   (specification SpecStart) *)

\* the StartTransaction requests sent for connector c
StartTransactionCalls(c, sts) ==
    {i \in DOMAIN sts : sts[i].connector = c
                          /\ sts[i].pc \in {"starting", "charging", "done"}
                          /\ (sts[i].pc = "done" => sts[i].transaction_id # None)}

\* C38 (as claimed): of the start_transaction invocations for a connector that
\* was Available at most one sends StartTransaction before the connector is
\* Available again, and a recorded transaction id is never replaced by another
C38_OneStartPerConnector ==
    [][ \A c \in PhysicalConnectors :
          /\ (connector_transactions[c] # None /\ connector_transactions'[c] # None)
                => connector_transactions'[c] = connector_transactions[c]
          /\ Cardinality(StartTransactionCalls(c, starts')) <= 1 ]_vars

====
